---- MODULE Spec2Model ----
(***************************************************************************)
(* Use-case layer of the qdrant operator (src/qdrant_operator/usecases.py) *)
(* as a state machine.  One invocation of one use case runs from "idle" to *)
(* "done" (a status was returned) or "raised" (an exception crossed the    *)
(* use-case boundary).  Every await on a port is one step whose outcome    *)
(* (result or exception) is chosen by the environment; the code between    *)
(* two awaits belongs to the step of the await that precedes it.           *)
(***************************************************************************)
EXTENDS Integers, Sequences, FiniteSets, TLC

VARIABLES
    pc,                  \* position of the running use case
    calls,               \* port calls made so far, in order, with their outcome
    ret,                 \* the status object returned (None until then)
    raised,              \* text of the exception that left execute (None if none)
    spec,                \* the BackupSpec / RestoreSpec handed to execute
    credentials,         \* (access key, secret key) once resolved
    collections,         \* the list the for loop iterates over
    idx,                 \* 1-based position of the for loop
    snapshot,            \* ExecuteBackup: the Snapshot of the current iteration
    total_size,          \* ExecuteBackup: running byte total
    collection_statuses, \* ExecuteBackup: list of CollectionBackupStatus
    source_path,         \* ExecuteRestore: result of resolve_source
    files,               \* ExecuteRestore: keys returned by list_files
    progress,            \* ExecuteRestore: the current RestoreProgress
    restored,            \* ExecuteRestore: list of RestoredCollection
    clock,               \* ProcessSchedule: the wall clock, in seconds
    schedule_status,     \* ProcessSchedule: the prior BackupScheduleStatus (status)
    now,                 \* ProcessSchedule: datetime.now() of line 335
    next_run,            \* ProcessSchedule: next_run of line 336
    lost,                \* returned schedule statuses that were never persisted
    fired,               \* backup requests the cluster API accepted, in order
    release,             \* Helm's record of the release of the cluster identity
    cluster_phase,       \* ReconcileCluster: phase chosen with the deploy call
    local_files,         \* the operator's local files: path -> content
    uploaded,            \* what recover_from_snapshot read and sent, in order
    peer,                \* a second ExecuteRestore.execute running in parallel
    yielded,             \* handlers.py: what the running handler returned
    stored_status        \* the status map persisted on the schedule resource

vars == <<pc, calls, ret, raised, spec, credentials, collections, idx,
          snapshot, total_size, collection_statuses,
          source_path, files, progress, restored,
          clock, schedule_status, now, next_run, lost, fired,
          release, cluster_phase, local_files, uploaded, peer,
          yielded, stored_status>>

backupVars  == <<snapshot, total_size, collection_statuses>>
restoreVars == <<source_path, files, progress, restored>>
scheduleVars == <<clock, schedule_status, now, next_run, lost, fired>>
clusterVars == <<release, cluster_phase>>
parallelVars == <<local_files, uploaded, peer>>
handlerVars == <<yielded, stored_status>>

(***************************************************************************)
(* Bounds of the explored inputs.                                          *)
(***************************************************************************)
MaxCollections == 2      \* longest collection list handed to a use case
MaxFiles == 2            \* longest listing returned by list_files
MaxTotal == 50           \* longest explicit collection list of a large restore
MaxStart == 1            \* latest second at which a schedule is first looked at
MaxTime == 7             \* last second of the explored time
MaxLost == 1             \* returned schedule statuses that may go unstored

(***************************************************************************)
(* Values.                                                                 *)
(***************************************************************************)
None == "None"                          \* Python's None, where a string may stand
CollectionNames == {"colA", "colB"}     \* names a caller or the cluster may give
SnapshotSizes == {0, 1536}              \* size_bytes a snapshot may report
PointCounts == {7}                      \* points_count a collection may report

RECURSIVE SeqsUpTo(_, _)
\* all sequences over S of length at most n
SeqsUpTo(S, n) ==
    IF n = 0 THEN {<<>>}
    ELSE LET shorter == SeqsUpTo(S, n - 1)
         IN  shorter \cup {Append(s, x) : s \in shorter, x \in S}

RECURSIVE SumSeq(_)
SumSeq(s) == IF s = <<>> THEN 0 ELSE Head(s) + SumSeq(Tail(s))

\* the elements of s that satisfy Test, in order
SelectStatus(s, st) == SelectSeq(s, LAMBDA c : c.status = st)

(***************************************************************************)
(* domain.py value objects.                                                *)
(***************************************************************************)
SecretRef(name, key, namespace) ==
    [name |-> name, key |-> key, namespace |-> namespace]

S3StorageSpec(bucket, prefix) ==
    [bucket |-> bucket, prefix |-> prefix,
     credentials_secret_ref |-> SecretRef("s3-creds", "AWS_ACCESS_KEY_ID", "default")]

Snapshot(name, collection, size_bytes) ==
    [name |-> name, collection |-> collection, size_bytes |-> size_bytes]

CollectionBackupStatus(name, snapshot_name, size, status, error) ==
    [name |-> name, snapshot_name |-> snapshot_name, size |-> size,
     status |-> status, error |-> error]

Condition(type, status, reason, message) ==
    [type |-> type, status |-> status, reason |-> reason, message |-> message]

BackupStatus(phase, s3_path, total, colls, error, conditions) ==
    [phase |-> phase, s3_path |-> s3_path, total_size |-> total,
     collections |-> colls, error |-> error, conditions |-> conditions]

BackupSpec(name, storage, colls) ==
    [kind |-> "BackupSpec", name |-> name, namespace |-> "default",
     storage |-> storage, collections |-> colls]

BackupSpecs ==
    {BackupSpec("bk", S3StorageSpec("bucket", "pfx"), cs) :
        cs \in SeqsUpTo(CollectionNames, MaxCollections)}

(***************************************************************************)
(* Port calls.  A call is logged with the loop iteration it was made in    *)
(* (0 outside the loop) and whether it returned (ok) or raised.            *)
(***************************************************************************)
\* str(e) of the exception a failing port call raises
ErrorText(op, arg) == op \o " failed: " \o arg

\* err is None when the call returned (result holds what it returned), else
\* the text of what it raised
Call(op, args, iter, ok, result, e) ==
    [op |-> op, args |-> args, iter |-> iter,
     err |-> IF ok THEN None ELSE e, result |-> IF ok THEN <<result>> ELSE <<>>]

(***************************************************************************)
(* usecases.py: format_size                                                *)
(***************************************************************************)
Units == <<"B", "KB", "MB", "GB", "TB">>

RECURSIVE format_size_from(_, _)
\* the for loop of format_size from unit number u on; size_bytes stays an
\* int (floor division), so the .1f rendering always ends in ".0"
format_size_from(size_bytes, u) ==
    IF u > Len(Units) THEN ToString(size_bytes) \o ".0PB"
    ELSE IF size_bytes < 1024 THEN ToString(size_bytes) \o ".0" \o Units[u]
    ELSE format_size_from(size_bytes \div 1024, u + 1)

\* format_size rendering the value without its decimal place
format_size_NoDecimal(size_bytes) ==
    IF size_bytes < 1024 THEN ToString(size_bytes) \o "B"
    ELSE format_size_from(size_bytes, 1)

format_size(size_bytes) == format_size_from(size_bytes, 1)

(***************************************************************************)
(* usecases.py: ExecuteBackup                                              *)
(***************************************************************************)
\* kubernetes_adapter.py get_secret_value: the decoded data of the secret
\* under the reference's key
SecretValue(ref) == "data[" \o ref.namespace \o "/" \o ref.name \o "/" \o ref.key \o "]"

\* secret_key_ref_for_secret looking the access key up a second time
secret_key_ref_for_secret_SameKey(ref) == ref

\* the key of the secret component, ExecuteBackup.get_storage_credentials
secret_key_ref_for_secret(ref) == SecretRef(ref.name, "AWS_SECRET_ACCESS_KEY", ref.namespace)

\* BackupAggregate deciding the phase from the last collection only
BackupAggregate_LastOnly(sp, colls, statuses, total) ==
    LET failed == SelectStatus(statuses, "Failed")
        phase  == IF statuses # <<>> /\ statuses[Len(statuses)].status = "Failed"
                  THEN "Failed" ELSE "Completed"
    IN  BackupStatus(
            phase,
            "s3://" \o sp.storage.bucket \o "/" \o sp.storage.prefix \o "/" \o sp.name,
            format_size(total),
            statuses,
            IF failed # <<>> THEN failed[1].error ELSE None,
            << Condition("Complete",
                         IF phase = "Completed" THEN "True" ELSE "False",
                         IF phase = "Completed" THEN "BackupCompleted" ELSE "BackupFailed",
                         "Backed up " \o ToString(Len(colls) - Len(failed)) \o "/"
                             \o ToString(Len(colls)) \o " collections") >>)

\* BackupAggregate surfacing the last failing collection's error
BackupAggregate_LastError(sp, colls, statuses, total) ==
    LET failed == SelectStatus(statuses, "Failed")
        phase  == IF failed # <<>> THEN "Failed" ELSE "Completed"
    IN  BackupStatus(
            phase,
            "s3://" \o sp.storage.bucket \o "/" \o sp.storage.prefix \o "/" \o sp.name,
            format_size(total),
            statuses,
            IF failed # <<>> THEN failed[Len(failed)].error ELSE None,
            << Condition("Complete",
                         IF phase = "Completed" THEN "True" ELSE "False",
                         IF phase = "Completed" THEN "BackupCompleted" ELSE "BackupFailed",
                         "Backed up " \o ToString(Len(colls) - Len(failed)) \o "/"
                             \o ToString(Len(colls)) \o " collections") >>)

\* lines 171-191: aggregate the per-collection outcomes into the BackupStatus
BackupAggregate(sp, colls, statuses, total) ==
    LET failed == SelectStatus(statuses, "Failed")
        phase  == IF failed # <<>> THEN "Failed" ELSE "Completed"
    IN  BackupStatus(
            phase,
            "s3://" \o sp.storage.bucket \o "/" \o sp.storage.prefix \o "/" \o sp.name,
            format_size(total),
            statuses,
            IF failed # <<>> THEN failed[1].error ELSE None,
            << Condition("Complete",
                         IF phase = "Completed" THEN "True" ELSE "False",
                         IF phase = "Completed" THEN "BackupCompleted" ELSE "BackupFailed",
                         "Backed up " \o ToString(Len(colls) - Len(failed)) \o "/"
                             \o ToString(Len(colls)) \o " collections") >>)

\* BackupLoop that waits at the end of the loop instead of returning
BackupLoop_Hang(colls, i, statuses, total) ==
    /\ pc' = IF i <= Len(colls) THEN "b_create_snapshot" ELSE "b_for"
    /\ idx' = i
    /\ ret' = ret

\* the for statement of line 132 reached with loop position i: either the
\* body starts for collections[i], or the loop is over and execute returns
BackupLoop(colls, i, statuses, total) ==
    IF i <= Len(colls)
    THEN /\ pc' = "b_create_snapshot"
         /\ idx' = i
         /\ ret' = ret
    ELSE /\ pc' = "done"
         /\ idx' = i
         /\ ret' = BackupAggregate(spec, colls, statuses, total)

\* BackupExcept leaving the loop after recording the failure
BackupExcept_Break(e) ==
    LET statuses == Append(collection_statuses,
                           CollectionBackupStatus(collections[idx], None, None, "Failed", e))
    IN  /\ collection_statuses' = statuses
        /\ BackupLoop(collections, Len(collections) + 1, statuses, total_size)

\* lines 162-169: the except clause of the loop body, then the next iteration
BackupExcept(e) ==
    LET statuses == Append(collection_statuses,
                           CollectionBackupStatus(collections[idx], None, None, "Failed", e))
    IN  /\ collection_statuses' = statuses
        /\ BackupLoop(collections, idx + 1, statuses, total_size)

\* BackupCredentialsRaise swallowing the exception and going on
BackupCredentialsRaise_Continue(e) ==
    /\ pc' = "b_list_collections"
    /\ raised' = raised

\* line 123: an exception of get_storage_credentials is not caught, it
\* leaves execute
BackupCredentialsRaise(e) ==
    /\ pc' = "raised"
    /\ raised' = e

\* line 115: execute is entered with a BackupSpec
InvokeBackup(sp) ==
    /\ pc = "idle"
    /\ pc' = "b_access_key"
    /\ spec' = sp
    /\ UNCHANGED <<calls, ret, raised, credentials, collections, idx,
                   backupVars, restoreVars>>
    /\ UNCHANGED scheduleVars
    /\ UNCHANGED clusterVars
    /\ UNCHANGED parallelVars
    /\ UNCHANGED handlerVars

\* line 195: get_secret_value for the access key
BackupGetAccessKey(ok) ==
    /\ pc = "b_access_key"
    /\ LET ref == spec.storage.credentials_secret_ref
       IN  /\ calls' = Append(calls, Call("get_secret_value", <<ref.name, ref.key, ref.namespace>>, 0, ok, SecretValue(ref),
                                  ErrorText("get_secret_value", ref.key)))
           /\ IF ok
              THEN /\ pc' = "b_secret_key"
                   /\ credentials' = <<SecretValue(ref)>>
                   /\ raised' = raised
              ELSE /\ BackupCredentialsRaise(ErrorText("get_secret_value", ref.key))
                   /\ credentials' = credentials
    /\ UNCHANGED <<ret, spec, collections, idx, backupVars, restoreVars>>
    /\ UNCHANGED scheduleVars
    /\ UNCHANGED clusterVars
    /\ UNCHANGED parallelVars
    /\ UNCHANGED handlerVars

\* lines 196-203 and 125-132: get_secret_value for the secret key, then the
\* collection list is taken from the spec
BackupGetSecretKey(ok) ==
    /\ pc = "b_secret_key"
    /\ LET ref == secret_key_ref_for_secret(spec.storage.credentials_secret_ref)
       IN  /\ calls' = Append(calls, Call("get_secret_value", <<ref.name, ref.key, ref.namespace>>, 0, ok, SecretValue(ref),
                                  ErrorText("get_secret_value", ref.key)))
           /\ IF ok
              THEN /\ credentials' = <<credentials[1], SecretValue(ref)>>
                   /\ raised' = raised
                   /\ collections' = spec.collections
                   /\ IF spec.collections = <<>>
                      THEN /\ pc' = "b_list_collections"
                           /\ UNCHANGED <<idx, ret>>
                      ELSE BackupLoop(spec.collections, 1, collection_statuses, total_size)
              ELSE /\ BackupCredentialsRaise(ErrorText("get_secret_value", ref.key))
                   /\ UNCHANGED <<credentials, collections, idx, ret>>
    /\ UNCHANGED <<spec, backupVars, restoreVars>>
    /\ UNCHANGED scheduleVars
    /\ UNCHANGED clusterVars
    /\ UNCHANGED parallelVars
    /\ UNCHANGED handlerVars

\* line 127: list_collections, when the spec names no collection
BackupListCollections(ok, result) ==
    /\ pc = "b_list_collections"
    /\ calls' = Append(calls, Call("list_collections", <<>>, 0, ok, result,
                           ErrorText("list_collections", "")))
    /\ IF ok
       THEN /\ collections' = result
            /\ raised' = raised
            /\ BackupLoop(result, 1, collection_statuses, total_size)
       ELSE /\ pc' = "raised"
            /\ raised' = ErrorText("list_collections", "")
            /\ UNCHANGED <<collections, idx, ret>>
    /\ UNCHANGED <<spec, credentials, backupVars, restoreVars>>
    /\ UNCHANGED scheduleVars
    /\ UNCHANGED clusterVars
    /\ UNCHANGED parallelVars
    /\ UNCHANGED handlerVars

\* lines 134-136: create_snapshot
BackupCreateSnapshot(ok, size_bytes) ==
    /\ pc = "b_create_snapshot"
    /\ LET collection == collections[idx]
       IN  /\ calls' = Append(calls, Call("create_snapshot", <<collection>>, idx, ok, size_bytes,
                                  ErrorText("create_snapshot", collection)))
           /\ IF ok
              THEN /\ snapshot' = Snapshot(collection \o ".snapshot", collection, size_bytes)
                   /\ pc' = "b_download_snapshot"
                   /\ UNCHANGED <<idx, ret, collection_statuses>>
              ELSE /\ snapshot' = snapshot
                   /\ BackupExcept(ErrorText("create_snapshot", collection))
    /\ UNCHANGED <<raised, spec, credentials, collections, total_size, restoreVars>>
    /\ UNCHANGED scheduleVars
    /\ UNCHANGED clusterVars
    /\ UNCHANGED parallelVars
    /\ UNCHANGED handlerVars

\* lines 138-141: download_snapshot to the staging path
BackupDownloadSnapshot(ok) ==
    /\ pc = "b_download_snapshot"
    /\ LET collection == collections[idx]
           local_path == "/tmp/" \o snapshot.name
       IN  /\ calls' = Append(calls, Call("download_snapshot",
                                          <<collection, snapshot.name, local_path>>, idx, ok, None,
                                          ErrorText("download_snapshot", collection)))
           /\ IF ok
              THEN /\ pc' = "b_upload_file"
                   /\ UNCHANGED <<idx, ret, collection_statuses>>
              ELSE BackupExcept(ErrorText("download_snapshot", collection))
    /\ UNCHANGED <<raised, spec, credentials, collections, snapshot, total_size, restoreVars>>
    /\ UNCHANGED scheduleVars
    /\ UNCHANGED clusterVars
    /\ UNCHANGED parallelVars
    /\ UNCHANGED handlerVars

\* RemoteKey leaving the collection out of the key
RemoteKey_NoCollection(sp, collection, snapshot_name) ==
    sp.storage.prefix \o "/" \o sp.name \o "/" \o snapshot_name

\* line 143: the object key a collection's snapshot is uploaded to
RemoteKey(sp, collection, snapshot_name) ==
    sp.storage.prefix \o "/" \o sp.name \o "/" \o collection \o "/" \o snapshot_name

\* lines 143-156: upload_file, then the size is added and Completed recorded
BackupUploadFile(ok) ==
    /\ pc = "b_upload_file"
    /\ LET collection == collections[idx]
           local_path == "/tmp/" \o snapshot.name
           remote_key == RemoteKey(spec, collection, snapshot.name)
       IN  /\ calls' = Append(calls, Call("upload_file", <<local_path, remote_key>>, idx, ok, None,
                                  ErrorText("upload_file", collection)))
           /\ IF ok
              THEN /\ total_size' = total_size + snapshot.size_bytes
                   /\ collection_statuses' =
                          Append(collection_statuses,
                                 CollectionBackupStatus(collection, snapshot.name,
                                     format_size(snapshot.size_bytes), "Completed", None))
                   /\ pc' = "b_delete_snapshot"
                   /\ UNCHANGED <<idx, ret>>
              ELSE /\ total_size' = total_size
                   /\ BackupExcept(ErrorText("upload_file", collection))
    /\ UNCHANGED <<raised, spec, credentials, collections, snapshot, restoreVars>>
    /\ UNCHANGED scheduleVars
    /\ UNCHANGED clusterVars
    /\ UNCHANGED parallelVars
    /\ UNCHANGED handlerVars

\* lines 158-160: delete_snapshot, the last statement of the try block
BackupDeleteSnapshot(ok) ==
    /\ pc = "b_delete_snapshot"
    /\ LET collection == collections[idx]
       IN  /\ calls' = Append(calls, Call("delete_snapshot",
                                          <<collection, snapshot.name>>, idx, ok, None,
                                          ErrorText("delete_snapshot", collection)))
           /\ IF ok
              THEN /\ collection_statuses' = collection_statuses
                   /\ BackupLoop(collections, idx + 1, collection_statuses, total_size)
              ELSE BackupExcept(ErrorText("delete_snapshot", collection))
    /\ UNCHANGED <<raised, spec, credentials, collections, snapshot, total_size, restoreVars>>
    /\ UNCHANGED scheduleVars
    /\ UNCHANGED clusterVars
    /\ UNCHANGED parallelVars
    /\ UNCHANGED handlerVars

NextBackup ==
    \/ \E sp \in BackupSpecs : InvokeBackup(sp)
    \/ \E ok \in BOOLEAN : BackupGetAccessKey(ok)
    \/ \E ok \in BOOLEAN : BackupGetSecretKey(ok)
    \/ \E ok \in BOOLEAN, result \in SeqsUpTo(CollectionNames, MaxCollections) :
           BackupListCollections(ok, result)
    \/ \E ok \in BOOLEAN, size_bytes \in SnapshotSizes : BackupCreateSnapshot(ok, size_bytes)
    \/ \E ok \in BOOLEAN : BackupDownloadSnapshot(ok)
    \/ \E ok \in BOOLEAN : BackupUploadFile(ok)
    \/ \E ok \in BOOLEAN : BackupDeleteSnapshot(ok)

(***************************************************************************)
(* domain.py: the value objects of a restore.  An optional attribute that  *)
(* holds an object is NoValue or Some(object); a variable that holds an    *)
(* object (spec, ret, snapshot, progress) is NoValue while it holds None.  *)
(***************************************************************************)
NoValue == <<>>
Some(v) == <<v>>

BackupRef(name, namespace) == [name |-> name, namespace |-> namespace]

RestoredCollection(name, original_name, status, points_count, error) ==
    [name |-> name, original_name |-> original_name, status |-> status,
     points_count |-> points_count, error |-> error]

RestoreProgress(total, completed, current, percentage) ==
    [collections_total |-> total, collections_completed |-> completed,
     current_collection |-> current, percentage |-> percentage]

RestoreStatus(phase, source_backup, restored_collections, prog, error) ==
    [phase |-> phase, source_backup |-> source_backup,
     restored_collections |-> restored_collections, progress |-> prog,
     error |-> error]

RestoreSpec(name, backup_ref, source_s3, colls, collection_mapping) ==
    [kind |-> "RestoreSpec", name |-> name, namespace |-> "default",
     backup_ref |-> backup_ref, source_s3 |-> source_s3,
     collections |-> colls, collection_mapping |-> collection_mapping]

EmptyDict == [k \in {} |-> None]

\* no second invocation
NoPeer == [pc |-> "none", name |-> None, collections |-> <<>>, idx |-> 0, completed |-> 0]
\* dict.get(key, default)
DictGet(d, key, default) == IF key \in DOMAIN d THEN d[key] ELSE default

CollectionMappings == {EmptyDict, "colA" :> "colC", ("colA" :> "colC") @@ ("colB" :> "colB")}

RestoreSpecs ==
    {RestoreSpec("rs", ref, s3, cs, m) :
        ref \in {NoValue, Some(BackupRef("bk", "default"))},
        s3  \in {NoValue, Some(S3StorageSpec("bucket", "src"))},
        cs  \in SeqsUpTo(CollectionNames, MaxCollections),
        m   \in CollectionMappings}

\* what get_resource may return for the referenced QdrantBackup: nothing
\* (404), a resource without status, one whose status has no s3Path, one
\* with an empty s3Path, one with a recorded s3Path
BackupResources ==
    {NoValue,
     Some([metadata |-> [name |-> "bk"]]),
     Some([status |-> [phase |-> "Pending"]]),
     Some([status |-> [phase |-> "Failed", s3Path |-> ""]]),
     Some([status |-> [phase |-> "Completed", s3Path |-> "s3://bucket/pfx/bk"]])}

\* object keys, as their "/"-separated segments
Keys ==
    {<<"src", "colA", "x.snapshot">>,
     <<"src", "colB", "x.snapshot">>,
     <<"src", "colA", "meta.json">>,
     <<"colA", "x.snapshot">>,
     <<"x.snapshot">>}

\* a listing never holds a key twice
Listings ==
    {l \in SeqsUpTo(Keys, MaxFiles) :
        \A i, j \in DOMAIN l : i # j => l[i] # l[j]}

\* segment names in ascending lexicographic (code point) order
LexOrder == <<"colA", "colB", "meta.json", "src", "x.snapshot">>

\* str.endswith(".snapshot") for a key: the suffix holds no "/", so it lies
\* in the last segment
EndsWithSnapshot(f) == f[Len(f)] \in {"x.snapshot"}

\* f"/{collection}/" in f: collection is a whole segment of f, neither the
\* first nor the last
HasSegment(f, collection) == \E i \in 2..(Len(f) - 1) : f[i] = collection

(***************************************************************************)
(* usecases.py: extract_collections, find_snapshot_key                     *)
(***************************************************************************)
\* extract_collections keeping the names in listing order
extract_collections_Unsorted(fs) ==
    LET named == SelectSeq(fs, LAMBDA f : Len(f) >= 2)
        names == [i \in 1..Len(named) |-> named[i][Len(named[i]) - 1]]
        firsts == SelectSeq([i \in 1..Len(names) |-> i],
                            LAMBDA i : \A j \in 1..(i - 1) : names[j] # names[i])
    IN  [k \in 1..Len(firsts) |-> names[firsts[k]]]

\* lines 375-382
extract_collections(fs) ==
    LET found == {fs[i][Len(fs[i]) - 1] : i \in {j \in DOMAIN fs : Len(fs[j]) >= 2}}
    IN  SelectSeq(LexOrder, LAMBDA n : n \in found)

\* the positions of fs that find_snapshot_key accepts for collection
SnapshotKeyPositions(fs, collection) ==
    {i \in DOMAIN fs : HasSegment(fs[i], collection) /\ EndsWithSnapshot(fs[i])}

\* find_snapshot_key accepting the first snapshot key of any collection
find_snapshot_key_AnySnapshot(fs, collection) ==
    LET hits == {i \in DOMAIN fs : EndsWithSnapshot(fs[i])}
    IN  IF hits = {} THEN NoValue
        ELSE Some(fs[CHOOSE i \in hits : \A j \in hits : i <= j])

\* NoValue stands for the ValueError of line 390
find_snapshot_key(fs, collection) ==
    LET hits == SnapshotKeyPositions(fs, collection)
    IN  IF hits = {} THEN NoValue
        ELSE Some(fs[CHOOSE i \in hits : \A j \in hits : i <= j])

(***************************************************************************)
(* usecases.py: ExecuteRestore                                             *)
(***************************************************************************)
(***************************************************************************)
(* Python float arithmetic (IEEE 754 binary64, round to nearest, ties to   *)
(* even) for line 237.  A positive float is [limbs, exp]: an integer       *)
(* written in base 2^LimbBits, most significant limb first and nonzero,    *)
(* with at most MantissaBits significant binary digits, and a binary       *)
(* exponent: the value is Int(limbs) * 2^exp.                              *)
(***************************************************************************)
MantissaBits == 53
LimbBits == 18

RECURSIVE Pow2(_)
Pow2(k) == IF k = 0 THEN 1 ELSE 2 * Pow2(k - 1)

LimbBase == Pow2(LimbBits)

Front(s) == SubSeq(s, 1, Len(s) - 1)

RECURSIVE IntBitLength(_)
IntBitLength(v) == IF v = 0 THEN 0 ELSE 1 + IntBitLength(v \div 2)

\* number of significant binary digits
BitLength(limbs) == (Len(limbs) - 1) * LimbBits + IntBitLength(limbs[1])

\* position of the lowest binary digit of limb j, counted from 0 at the end
LowPos(limbs, j) == (Len(limbs) - j) * LimbBits

\* binary digit p, counted from 0 at the end
Bit(limbs, p) == (limbs[Len(limbs) - (p \div LimbBits)] \div Pow2(p % LimbBits)) % 2

\* the d lowest binary digits set to 0
ClearLow(limbs, d) ==
    [j \in 1..Len(limbs) |->
        IF LowPos(limbs, j) >= d THEN limbs[j]
        ELSE IF LowPos(limbs, j) + LimbBits <= d THEN 0
        ELSE (limbs[j] \div Pow2(d - LowPos(limbs, j))) * Pow2(d - LowPos(limbs, j))]

RECURSIVE AddLimb(_, _, _)
\* limbs + v * LimbBase^(Len(limbs) - j)
AddLimb(limbs, j, v) ==
    IF j = 0 THEN <<v>> \o limbs
    ELSE IF limbs[j] + v < LimbBase THEN [limbs EXCEPT ![j] = limbs[j] + v]
    ELSE AddLimb([limbs EXCEPT ![j] = limbs[j] + v - LimbBase], j - 1, 1)

\* round an exact value Int(limbs) * 2^exp (plus a smaller nonzero rest when
\* sticky) to MantissaBits significant digits
RoundToMantissa(limbs, exp, sticky) ==
    IF BitLength(limbs) <= MantissaBits THEN [limbs |-> limbs, exp |-> exp]
    ELSE LET drop == BitLength(limbs) - MantissaBits
             rest == sticky \/ \E p \in 0..(drop - 2) : Bit(limbs, p) = 1
             up   == Bit(limbs, drop - 1) = 1 /\ (rest \/ Bit(limbs, drop) = 1)
             kept == ClearLow(limbs, drop)
         IN  [limbs |-> IF up THEN AddLimb(kept, Len(kept) - (drop \div LimbBits),
                                           Pow2(drop % LimbBits))
                        ELSE kept,
              exp   |-> exp]

RECURSIVE FirstOne(_, _)
\* position of the first 1 among the binary fraction digits of r / n, 0 < r < n
FirstOne(r, n) == IF 2 * r >= n THEN 1 ELSE 1 + FirstOne(2 * r, n)

RECURSIVE FracLimbs(_, _, _)
\* the next k fraction limbs of the long division with remainder r
FracLimbs(r, n, k) ==
    IF k = 0 THEN <<>>
    ELSE <<(r * LimbBase) \div n>> \o FracLimbs((r * LimbBase) % n, n, k - 1)

RECURSIVE FracRem(_, _, _)
\* the remainder of that long division after k limbs
FracRem(r, n, k) == IF k = 0 THEN r ELSE FracRem((r * LimbBase) % n, n, k - 1)

\* limbs that hold MantissaBits digits and the one below them
DivLimbs == (MantissaBits + 1) \div LimbBits

\* the float i / n for 0 < i < n
FloatDiv(i, n) ==
    CHOOSE y \in {RoundToMantissa(limbs, 0 - (FirstOne(i, n) - 1 + DivLimbs * LimbBits),
                                  FracRem(i * Pow2(FirstOne(i, n) - 1), n, DivLimbs) # 0) :
                      limbs \in {FracLimbs(i * Pow2(FirstOne(i, n) - 1), n, DivLimbs)}} : TRUE

RECURSIVE MulLimbs(_, _, _)
\* limbs * k + carry, exactly
MulLimbs(limbs, k, carry) ==
    IF limbs = <<>> THEN (IF carry = 0 THEN <<>> ELSE <<carry>>)
    ELSE Append(MulLimbs(Front(limbs), k, (limbs[Len(limbs)] * k + carry) \div LimbBase),
                (limbs[Len(limbs)] * k + carry) % LimbBase)

\* the float x * k for a small positive integer k
FloatMulInt(x, k) ==
    CHOOSE y \in {RoundToMantissa(limbs, x.exp, FALSE) : limbs \in {MulLimbs(x.limbs, k, 0)}} : TRUE

\* int(x) for a positive float below 2^31: the binary digits at or above
\* position -exp
FloatToInt(x) ==
    SumSeq([j \in 1..Len(x.limbs) |->
        IF LowPos(x.limbs, j) + x.exp >= 0
            THEN x.limbs[j] * Pow2(LowPos(x.limbs, j) + x.exp)
        ELSE IF LowPos(x.limbs, j) + LimbBits + x.exp <= 0 THEN 0
        ELSE x.limbs[j] \div Pow2(0 - (LowPos(x.limbs, j) + x.exp))])

\* Percentage counting the collection that is about to start as done
Percentage_OneBased(i, n) == ((i + 1) * 100) \div n

\* int((i / n) * 100) of line 237, for 0 <= i < n
Percentage(i, n) ==
    IF i = 0 THEN 0
    ELSE CHOOSE p \in {FloatToInt(x) : x \in {FloatMulInt(q, 100) : q \in {FloatDiv(i, n)}}} : TRUE

\* line 232: spec.collection_mapping.get(collection, collection)
TargetName(sp, collection) == DictGet(sp.collection_mapping, collection, collection)

\* OriginalName recording the source name whether or not it was renamed
OriginalName_Always(collection, target_name) == collection

\* lines 255 and 265
OriginalName(collection, target_name) ==
    IF collection # target_name THEN collection ELSE None

\* ResolveSource taking the direct storage source before the looked-up path
ResolveSource_PreferS3(sp, backup) ==
    IF sp.source_s3 # NoValue THEN Some(sp.source_s3[1].prefix)
    ELSE IF /\ sp.backup_ref # NoValue
            /\ backup # NoValue
            /\ DictGet(DictGet(backup[1], "status", EmptyDict), "s3Path", None) \notin {None, ""}
    THEN Some(backup[1].status.s3Path)
    ELSE NoValue

\* lines 298-302 of resolve_source, once the backup lookup (if any) returned
\* backup: the source path, or NoValue for the ValueError of line 302
ResolveSource(sp, backup) ==
    IF /\ sp.backup_ref # NoValue
       /\ backup # NoValue
       /\ DictGet(DictGet(backup[1], "status", EmptyDict), "s3Path", None) \notin {None, ""}
    THEN Some(backup[1].status.s3Path)
    ELSE IF sp.source_s3 # NoValue THEN Some(sp.source_s3[1].prefix)
    ELSE NoValue

\* lines 218-223 after resolve_source's lookup: execute goes on to the
\* credentials or raises
RestoreResolved(sp, backup) ==
    LET src == ResolveSource(sp, backup)
    IN  IF src = NoValue
        THEN /\ pc' = "raised"
             /\ raised' = "No valid backup source found"
             /\ source_path' = source_path
        ELSE IF sp.source_s3 = NoValue
        THEN /\ pc' = "raised"
             /\ raised' = "No storage configuration found"
             /\ source_path' = src[1]
        ELSE /\ pc' = "r_access_key"
             /\ raised' = raised
             /\ source_path' = src[1]

\* RestoreAggregate reporting Failed only when every collection failed
RestoreAggregate_AllFailed(src, colls, rest) ==
    LET failed == SelectStatus(rest, "Failed")
    IN  RestoreStatus(
            IF failed # <<>> /\ Len(failed) = Len(rest) THEN "Failed" ELSE "Completed",
            src,
            rest,
            RestoreProgress(Len(colls), Len(colls) - Len(failed), None, 100),
            IF failed # <<>> THEN failed[1].error ELSE None)

\* RestoreAggregate counting every processed collection as completed
RestoreAggregate_CompletedAll(src, colls, rest) ==
    LET failed == SelectStatus(rest, "Failed")
    IN  RestoreStatus(
            IF failed # <<>> THEN "Failed" ELSE "Completed",
            src,
            rest,
            RestoreProgress(Len(colls), Len(colls), None, 100),
            IF failed # <<>> THEN failed[1].error ELSE None)

\* lines 271-286: aggregate the per-collection outcomes into the RestoreStatus
RestoreAggregate(src, colls, rest) ==
    LET failed == SelectStatus(rest, "Failed")
    IN  RestoreStatus(
            IF failed # <<>> THEN "Failed" ELSE "Completed",
            src,
            rest,
            RestoreProgress(Len(colls), Len(colls) - Len(failed), None, 100),
            IF failed # <<>> THEN failed[1].error ELSE None)

\* RestoreExcept leaving the loop after recording the failure
RestoreExcept_Break(e) ==
    LET collection  == collections[idx]
        target_name == TargetName(spec, collection)
    IN  /\ restored' = Append(restored,
                              RestoredCollection(target_name,
                                  OriginalName(collection, target_name),
                                  "Failed", NoValue, e))
        /\ idx' = Len(collections) + 1
        /\ pc' = "r_for"

\* lines 261-269: the except clause of the loop body, then the next iteration
RestoreExcept(e) ==
    LET collection  == collections[idx]
        target_name == TargetName(spec, collection)
    IN  /\ restored' = Append(restored,
                              RestoredCollection(target_name,
                                  OriginalName(collection, target_name),
                                  "Failed", NoValue, e))
        /\ idx' = idx + 1
        /\ pc' = "r_for"

\* line 214: execute is entered with a RestoreSpec; resolve_source looks the
\* backup up when a reference is given
InvokeRestore(sp) ==
    /\ pc = "idle"
    /\ spec' = sp
    /\ IF sp.backup_ref # NoValue
       THEN /\ pc' = "r_get_resource"
            /\ UNCHANGED <<raised, source_path>>
       ELSE RestoreResolved(sp, NoValue)
    /\ UNCHANGED <<calls, ret, credentials, collections, idx, backupVars,
                   files, progress, restored>>
    /\ UNCHANGED scheduleVars
    /\ UNCHANGED clusterVars
    /\ UNCHANGED parallelVars
    /\ UNCHANGED handlerVars

\* lines 291-302 and 219-221: get_resource for the referenced backup
RestoreGetResource(ok, backup) ==
    /\ pc = "r_get_resource"
    /\ LET ref == spec.backup_ref[1]
       IN  calls' = Append(calls, Call("get_resource", <<"qdrantbackups", ref.name, ref.namespace>>,
                                       0, ok, backup, ErrorText("get_resource", ref.name)))
    /\ IF ok
       THEN RestoreResolved(spec, backup)
       ELSE /\ pc' = "raised"
            /\ raised' = ErrorText("get_resource", spec.backup_ref[1].name)
            /\ source_path' = source_path
    /\ UNCHANGED <<ret, spec, credentials, collections, idx, backupVars,
                   files, progress, restored>>
    /\ UNCHANGED scheduleVars
    /\ UNCHANGED clusterVars
    /\ UNCHANGED parallelVars
    /\ UNCHANGED handlerVars

\* line 306: get_secret_value for the access key
RestoreGetAccessKey(ok) ==
    /\ pc = "r_access_key"
    /\ LET ref == spec.source_s3[1].credentials_secret_ref
       IN  /\ calls' = Append(calls, Call("get_secret_value", <<ref.name, ref.key, ref.namespace>>, 0, ok, SecretValue(ref),
                                  ErrorText("get_secret_value", ref.key)))
           /\ IF ok
              THEN /\ pc' = "r_secret_key"
                   /\ credentials' = <<SecretValue(ref)>>
                   /\ raised' = raised
              ELSE /\ pc' = "raised"
                   /\ credentials' = credentials
                   /\ raised' = ErrorText("get_secret_value", ref.key)
    /\ UNCHANGED <<ret, spec, collections, idx, backupVars, restoreVars>>
    /\ UNCHANGED scheduleVars
    /\ UNCHANGED clusterVars
    /\ UNCHANGED parallelVars
    /\ UNCHANGED handlerVars

\* lines 307-314: get_secret_value for the secret key
RestoreGetSecretKey(ok) ==
    /\ pc = "r_secret_key"
    /\ LET ref == secret_key_ref_for_secret(spec.source_s3[1].credentials_secret_ref)
       IN  /\ calls' = Append(calls, Call("get_secret_value", <<ref.name, ref.key, ref.namespace>>, 0, ok, SecretValue(ref),
                                  ErrorText("get_secret_value", ref.key)))
           /\ IF ok
              THEN /\ pc' = "r_list_files"
                   /\ credentials' = <<credentials[1], SecretValue(ref)>>
                   /\ raised' = raised
              ELSE /\ pc' = "raised"
                   /\ credentials' = credentials
                   /\ raised' = ErrorText("get_secret_value", ref.key)
    /\ UNCHANGED <<ret, spec, collections, idx, backupVars, restoreVars>>
    /\ UNCHANGED scheduleVars
    /\ UNCHANGED clusterVars
    /\ UNCHANGED parallelVars
    /\ UNCHANGED handlerVars

\* lines 224-229: list_files, then the collection list and the first progress
RestoreListFiles(ok, result) ==
    /\ pc = "r_list_files"
    /\ calls' = Append(calls, Call("list_files", <<source_path>>, 0, ok, result,
                                   ErrorText("list_files", source_path)))
    /\ IF ok
       THEN LET colls == IF spec.collections # <<>> THEN spec.collections
                         ELSE extract_collections(result)
            IN  /\ files' = result
                /\ collections' = colls
                /\ progress' = RestoreProgress(Len(colls), 0, None, 0)
                /\ idx' = 1
                /\ pc' = "r_for"
                /\ raised' = raised
       ELSE /\ pc' = "raised"
            /\ raised' = ErrorText("list_files", source_path)
            /\ UNCHANGED <<files, collections, progress, idx>>
    /\ UNCHANGED <<ret, spec, credentials, backupVars, source_path, restored>>
    /\ UNCHANGED scheduleVars
    /\ UNCHANGED clusterVars
    /\ UNCHANGED parallelVars
    /\ UNCHANGED handlerVars

\* lines 231-242: the loop body starts for collections[idx]: target name,
\* running progress, and the snapshot key (whose absence is caught at once)
RestoreBeginCollection ==
    /\ pc = "r_for"
    /\ idx <= Len(collections)
    /\ LET collection  == collections[idx]
           target_name == TargetName(spec, collection)
       IN  /\ progress' = RestoreProgress(Len(collections), idx - 1, target_name,
                                          Percentage(idx - 1, Len(collections)))
           /\ IF find_snapshot_key(files, collection) = NoValue
              THEN RestoreExcept("No snapshot found for collection " \o collection)
              ELSE /\ pc' = "r_download_file"
                   /\ UNCHANGED <<idx, restored>>
    /\ UNCHANGED <<calls, ret, raised, spec, credentials, collections, backupVars,
                   source_path, files>>
    /\ UNCHANGED scheduleVars
    /\ UNCHANGED clusterVars
    /\ UNCHANGED parallelVars
    /\ UNCHANGED handlerVars

\* what a local file holds: the object that was downloaded into it, and the
\* restore that downloaded it
FileContent(by, key) == [by |-> by, key |-> key]

\* s3_adapter.py lines 53-56: the download creates or replaces the file
WriteFile(fs, path, content) == (path :> content) @@ fs

\* qdrant_adapter.py lines 133-138: the file is read and its content sent
Upload(by, collection, path, content) ==
    [by |-> by, collection |-> collection, path |-> path, content |-> content]

\* line 242; name is the restore's name, which the path does not hold
LocalPath(name, collection) == "/tmp/" \o collection \o "_restore.snapshot"

\* line 244: download_file of the snapshot key to the local path
RestoreDownloadFile(ok) ==
    /\ pc = "r_download_file"
    /\ LET collection   == collections[idx]
           snapshot_key == find_snapshot_key(files, collection)[1]
           local_path   == LocalPath(spec.name, collection)
       IN  /\ calls' = Append(calls, Call("download_file", <<snapshot_key, local_path>>, idx, ok, None,
                                          ErrorText("download_file", collection)))
           /\ IF ok
              THEN /\ pc' = "r_recover_from_snapshot"
                   /\ local_files' = WriteFile(local_files, local_path,
                                               FileContent(spec.name, snapshot_key))
                   /\ UNCHANGED <<idx, restored>>
              ELSE /\ RestoreExcept(ErrorText("download_file", collection))
                   /\ local_files' = local_files
    /\ UNCHANGED <<ret, raised, spec, credentials, collections, backupVars,
                   source_path, files, progress>>
    /\ UNCHANGED scheduleVars
    /\ UNCHANGED clusterVars
    /\ UNCHANGED <<uploaded, peer>>
    /\ UNCHANGED handlerVars

\* lines 246-248: recover_from_snapshot against the target name
RestoreRecoverFromSnapshot(ok) ==
    /\ pc = "r_recover_from_snapshot"
    /\ LET collection  == collections[idx]
           target_name == TargetName(spec, collection)
           local_path  == LocalPath(spec.name, collection)
       IN  /\ calls' = Append(calls, Call("recover_from_snapshot", <<target_name, local_path>>,
                                          idx, ok, None, ErrorText("recover_from_snapshot", target_name)))
           /\ uploaded' = Append(uploaded, Upload(spec.name, target_name, local_path,
                                                  local_files[local_path]))
           /\ IF ok
              THEN /\ pc' = "r_get_collection_info"
                   /\ UNCHANGED <<idx, restored>>
              ELSE RestoreExcept(ErrorText("recover_from_snapshot", target_name))
    /\ UNCHANGED <<ret, raised, spec, credentials, collections, backupVars,
                   source_path, files, progress>>
    /\ UNCHANGED scheduleVars
    /\ UNCHANGED clusterVars
    /\ UNCHANGED <<local_files, peer>>
    /\ UNCHANGED handlerVars

\* lines 250-259: get_collection_info, then Completed is recorded
RestoreGetCollectionInfo(ok, points_count) ==
    /\ pc = "r_get_collection_info"
    /\ LET collection  == collections[idx]
           target_name == TargetName(spec, collection)
       IN  /\ calls' = Append(calls, Call("get_collection_info", <<target_name>>, idx, ok, points_count,
                                          ErrorText("get_collection_info", target_name)))
           /\ IF ok
              THEN /\ restored' = Append(restored,
                                         RestoredCollection(target_name,
                                             OriginalName(collection, target_name),
                                             "Completed", Some(points_count), None))
                   /\ idx' = idx + 1
                   /\ pc' = "r_for"
              ELSE RestoreExcept(ErrorText("get_collection_info", target_name))
    /\ UNCHANGED <<ret, raised, spec, credentials, collections, backupVars,
                   source_path, files, progress>>
    /\ UNCHANGED scheduleVars
    /\ UNCHANGED clusterVars
    /\ UNCHANGED parallelVars
    /\ UNCHANGED handlerVars

\* lines 271-286: the loop is over, execute returns the RestoreStatus
RestoreReturn ==
    /\ pc = "r_for"
    /\ idx > Len(collections)
    /\ ret' = RestoreAggregate(source_path, collections, restored)
    /\ pc' = "done"
    /\ UNCHANGED <<calls, raised, spec, credentials, collections, idx, backupVars,
                   restoreVars>>
    /\ UNCHANGED scheduleVars
    /\ UNCHANGED clusterVars
    /\ UNCHANGED parallelVars
    /\ UNCHANGED handlerVars

NextRestore ==
    \/ \E sp \in RestoreSpecs : InvokeRestore(sp)
    \/ \E ok \in BOOLEAN, backup \in BackupResources : RestoreGetResource(ok, backup)
    \/ \E ok \in BOOLEAN : RestoreGetAccessKey(ok)
    \/ \E ok \in BOOLEAN : RestoreGetSecretKey(ok)
    \/ \E ok \in BOOLEAN, result \in Listings : RestoreListFiles(ok, result)
    \/ RestoreBeginCollection
    \/ \E ok \in BOOLEAN : RestoreDownloadFile(ok)
    \/ \E ok \in BOOLEAN : RestoreRecoverFromSnapshot(ok)
    \/ \E ok \in BOOLEAN, points_count \in PointCounts : RestoreGetCollectionInfo(ok, points_count)
    \/ RestoreReturn

(***************************************************************************)
(* ProcessSchedule (usecases.py lines 316-363), compute_next_run and       *)
(* build_backup_resource.  Time is counted in whole seconds from           *)
(* 2026-01-01 00:00:00 and stays within that minute; a datetime is its     *)
(* second count, an absent datetime is NoValue.  The schedules are cron    *)
(* expressions with a seconds field, which croniter reads as the sixth.    *)
(***************************************************************************)
ClusterRef(name, namespace) == [name |-> name, namespace |-> namespace]

BackupScheduleSpec(name, schedule, suspend) ==
    [kind |-> "BackupScheduleSpec", name |-> name, namespace |-> "default",
     schedule |-> schedule, cluster_ref |-> ClusterRef("qdrant", "default"),
     storage |-> S3StorageSpec("bucket", "backups"), collections |-> <<>>,
     suspend |-> suspend]

BackupScheduleStatus(phase, last_time, last_name, last_status, next_time, active_backup) ==
    [phase |-> phase, last_backup_time |-> last_time,
     last_backup_name |-> last_name, last_backup_status |-> last_status,
     next_backup_time |-> next_time, active_backup |-> active_backup]

Schedules == {"* * * * * */2", "* * * * * */3"}

ScheduleSpecs ==
    {BackupScheduleSpec("nightly", schedule, suspend) :
        schedule \in Schedules, suspend \in BOOLEAN}

\* seconds between two occurrences of the schedule; second 0 is one
CronPeriod(schedule) == IF schedule = "* * * * * */2" THEN 2 ELSE 3

\* the first occurrence at or after base
NextOccurrence_Inclusive(schedule, base) ==
    IF base % CronPeriod(schedule) = 0 THEN base
    ELSE (base \div CronPeriod(schedule) + 1) * CronPeriod(schedule)

\* croniter(schedule, base).get_next(datetime): the first occurrence after base
NextOccurrence(schedule, base) ==
    (base \div CronPeriod(schedule) + 1) * CronPeriod(schedule)

\* compute_next_run anchored at the start of the minute, whatever last_run is
compute_next_run_FromStart(schedule, last_run, clock_read) ==
    Some(NextOccurrence(schedule, 0))

\* lines 393-398; clock_read is what datetime.now() returns when it is called
compute_next_run(schedule, last_run, clock_read) ==
    Some(NextOccurrence(schedule, IF last_run # NoValue THEN last_run[1] ELSE clock_read))

\* now.strftime('%Y%m%d-%H%M%S')
Timestamp(t) == "20260101-0000" \o (IF t < 10 THEN "0" ELSE "") \o ToString(t)

\* line 339
BackupName(sp, t) == sp.name \o "-" \o Timestamp(t)

\* lines 401-433 (region, endpoint and forcePathStyle are not modelled)
build_backup_resource(sp, backup_name) ==
    [apiVersion |-> "qdrant.io/v1alpha1",
     kind |-> "QdrantBackup",
     metadata |-> [name |-> backup_name, namespace |-> sp.namespace,
                   labels |-> ("qdrant.io/schedule" :> sp.name)],
     spec |-> [clusterRef |-> [name |-> sp.cluster_ref.name,
                               namespace |-> sp.cluster_ref.namespace],
               storage |-> [s3 |-> [bucket |-> sp.storage.bucket,
                                    prefix |-> sp.storage.prefix \o "/" \o backup_name,
                                    credentialsSecretRef |->
                                        [name |-> sp.storage.credentials_secret_ref.name,
                                         accessKeyIdKey |-> sp.storage.credentials_secret_ref.key]]],
               collections |-> IF sp.collections # <<>> THEN Some(sp.collections)
                               ELSE NoValue]]

\* lines 328-333
ScheduleSuspendedStatus(st) ==
    BackupScheduleStatus("Suspended", st.last_backup_time, st.last_backup_name,
                         None, NoValue, None)

\* ScheduleDueStatus whose next-backup time may be the fire time itself
ScheduleDueStatus_NextInclusive(sp, t, backup_name) ==
    BackupScheduleStatus("Active", Some(t), backup_name, None,
                         Some(NextOccurrence_Inclusive(sp.schedule, t)), backup_name)

\* lines 350-356
ScheduleDueStatus(sp, t, backup_name) ==
    BackupScheduleStatus("Active", Some(t), backup_name, None,
                         compute_next_run(sp.schedule, Some(t), t), backup_name)

\* lines 358-363
ScheduleNotDueStatus(st, nr) ==
    BackupScheduleStatus("Active", st.last_backup_time, st.last_backup_name,
                         None, nr, None)

\* the status of a schedule that has not run yet
FreshStatus == BackupScheduleStatus("Active", NoValue, None, None, NoValue, None)

\* what BackupScheduleStatus.from_dict reads for a schedule whose last
\* backup was requested at t, with or without a recorded outcome
Outcomes == {None, "Completed"}
StatusAfterBackup(sp, t, outcome) ==
    BackupScheduleStatus("Active", Some(t), BackupName(sp, t), outcome,
                         compute_next_run(sp.schedule, Some(t), t), BackupName(sp, t))

\* lines 323-340 and 358-363: execute(spec, st) up to its await or its
\* return.  late is the time that passes between datetime.now() of line 335
\* and the one compute_next_run makes when there is no last run
ProcessScheduleExecute(st, late) ==
    /\ pc = "idle"
    /\ clock + late <= MaxTime
    /\ late = 0 \/ (~ spec.suspend /\ st.last_backup_time = NoValue)
    /\ IF spec.suspend
       THEN /\ ret' = ScheduleSuspendedStatus(st)
            /\ pc' = "done"
            /\ UNCHANGED <<clock, now, next_run>>
       ELSE LET nr == compute_next_run(spec.schedule, st.last_backup_time,
                                       clock + late)
            IN  /\ now' = clock
                /\ clock' = clock + late
                /\ next_run' = nr
                /\ IF nr # NoValue /\ clock >= nr[1]
                   THEN /\ pc' = "s_create_resource"
                        /\ ret' = ret
                   ELSE /\ pc' = "done"
                        /\ ret' = ScheduleNotDueStatus(st, nr)
    /\ UNCHANGED <<calls, raised, spec, credentials, collections, idx, backupVars,
                   restoreVars, schedule_status, lost, fired>>
    /\ UNCHANGED clusterVars
    /\ UNCHANGED parallelVars
    /\ UNCHANGED handlerVars

\* handlers.py lines 144-158, check_schedule: the timer hands execute the
\* stored status
InvokeSchedule(late) == ProcessScheduleExecute(schedule_status, late)

\* handlers.py lines 121-139, create_schedule on a create or resume event:
\* execute is handed BackupScheduleStatus(phase=ACTIVE), whatever is stored
ResumeSchedule(late) == ProcessScheduleExecute(FreshStatus, late)

\* handlers.py line 141: create_schedule returns result.to_dict() to the
\* framework, which may or may not make it the stored status
ResumeReturn(stored) ==
    /\ pc = "done"
    /\ schedule_status' = IF stored THEN ret ELSE schedule_status
    /\ pc' = "idle"
    /\ ret' = NoValue
    /\ UNCHANGED <<calls, raised, spec, credentials, collections, idx, backupVars,
                   restoreVars, clock, now, next_run, lost, fired>>
    /\ UNCHANGED clusterVars
    /\ UNCHANGED parallelVars
    /\ UNCHANGED handlerVars

\* lines 341-356: create_resource for the QdrantBackup, then the return.
\* The cluster API accepts no second resource of a name it holds already
ScheduleCreateResource(ok) ==
    /\ pc = "s_create_resource"
    /\ ok => \A k \in DOMAIN fired : fired[k].name # BackupName(spec, now)
    /\ LET backup_name == BackupName(spec, now)
       IN  /\ calls' = Append(calls,
                  Call("create_resource",
                       <<"qdrant.io", "v1alpha1", "qdrantbackups", spec.namespace,
                         build_backup_resource(spec, backup_name)>>,
                       0, ok, None, ErrorText("create_resource", backup_name)))
           /\ IF ok
              THEN /\ ret' = ScheduleDueStatus(spec, now, backup_name)
                   /\ pc' = "done"
                   /\ raised' = raised
                   /\ fired' = Append(fired, [time |-> now, name |-> backup_name,
                                              next_run |-> next_run[1]])
              ELSE /\ pc' = "raised"
                   /\ raised' = ErrorText("create_resource", backup_name)
                   /\ UNCHANGED <<ret, fired>>
    /\ UNCHANGED <<spec, credentials, collections, idx, backupVars, restoreVars,
                   clock, schedule_status, now, next_run, lost>>
    /\ UNCHANGED clusterVars
    /\ UNCHANGED parallelVars
    /\ UNCHANGED handlerVars

\* the caller stores the returned status: it is the prior status of the
\* next invocation
ScheduleFeedBack ==
    /\ pc = "done"
    /\ schedule_status' = ret
    /\ pc' = "idle"
    /\ ret' = NoValue
    /\ calls' = <<>>
    /\ UNCHANGED <<raised, spec, credentials, collections, idx, backupVars,
                   restoreVars, clock, now, next_run, lost, fired>>
    /\ UNCHANGED clusterVars
    /\ UNCHANGED parallelVars
    /\ UNCHANGED handlerVars

\* the caller crashes or is requeued before it stores the returned status
ScheduleLoseStatus ==
    /\ pc = "done"
    /\ lost < MaxLost
    /\ lost' = lost + 1
    /\ pc' = "idle"
    /\ ret' = NoValue
    /\ calls' = <<>>
    /\ UNCHANGED <<raised, spec, credentials, collections, idx, backupVars,
                   restoreVars, clock, schedule_status, now, next_run, fired>>
    /\ UNCHANGED clusterVars
    /\ UNCHANGED parallelVars
    /\ UNCHANGED handlerVars

\* execute raised: nothing was returned, the timer invokes it again later
ScheduleRequeue ==
    /\ pc = "raised"
    /\ pc' = "idle"
    /\ raised' = None
    /\ calls' = <<>>
    /\ UNCHANGED <<ret, spec, credentials, collections, idx, backupVars,
                   restoreVars, scheduleVars>>
    /\ UNCHANGED clusterVars
    /\ UNCHANGED parallelVars
    /\ UNCHANGED handlerVars

\* a second passes between two invocations
Tick ==
    /\ pc = "idle"
    /\ clock < MaxTime
    /\ clock' = clock + 1
    /\ UNCHANGED <<pc, calls, ret, raised, spec, credentials, collections, idx,
                   backupVars, restoreVars, schedule_status, now, next_run, lost, fired>>
    /\ UNCHANGED clusterVars
    /\ UNCHANGED parallelVars
    /\ UNCHANGED handlerVars

NextSchedule ==
    \/ \E late \in 0..1 : InvokeSchedule(late)
    \/ \E ok \in BOOLEAN : ScheduleCreateResource(ok)
    \/ ScheduleFeedBack
    \/ ScheduleLoseStatus
    \/ ScheduleRequeue
    \/ Tick

\* a QdrantBackupSchedule exists, with its spec and its stored status
InitSchedule ==
    /\ pc = "idle"
    /\ calls = <<>>
    /\ ret = NoValue
    /\ raised = None
    /\ spec \in ScheduleSpecs
    /\ credentials = <<>>
    /\ collections = <<>>
    /\ idx = 0
    /\ snapshot = NoValue
    /\ total_size = 0
    /\ collection_statuses = <<>>
    /\ source_path = None
    /\ files = <<>>
    /\ progress = NoValue
    /\ restored = <<>>
    /\ clock \in 0..MaxStart
    /\ schedule_status \in
           {FreshStatus} \cup {StatusAfterBackup(spec, t, outcome) :
                                   t \in 0..clock, outcome \in Outcomes}
    /\ now = 0
    /\ next_run = NoValue
    /\ lost = 0
    /\ fired = <<>>
    /\ release = "absent"
    /\ cluster_phase = None
    /\ local_files = EmptyDict
    /\ uploaded = <<>>
    /\ peer = NoPeer
    /\ yielded = NoValue
    /\ stored_status = EmptyDict

SpecSchedule == InitSchedule /\ [][NextSchedule]_vars

\* the operator restarts over an existing schedule: only resume events
NextResume ==
    \/ \E late \in 0..1 : ResumeSchedule(late)
    \/ \E stored \in BOOLEAN : ResumeReturn(stored)
    \/ Tick

SpecResume == InitSchedule /\ [][NextResume]_vars

(***************************************************************************)
(* domain.py: BackupScheduleStatus.to_dict and from_dict.  A dict is a     *)
(* function from its keys; the text of a datetime is the sequence of its   *)
(* characters.                                                             *)
(***************************************************************************)
DigitChars == <<"0", "1", "2", "3", "4", "5", "6", "7", "8", "9">>
DigitValue(c) == CHOOSE d \in 0..9 : DigitChars[d + 1] = c

\* datetime.isoformat() of second t of 2026-01-01 00:00:00
isoformat(t) ==
    <<"2", "0", "2", "6", "-", "0", "1", "-", "0", "1", "T", "0", "0", ":",
      DigitChars[((t \div 60) \div 10) + 1], DigitChars[((t \div 60) % 10) + 1], ":",
      DigitChars[((t % 60) \div 10) + 1], DigitChars[((t % 60) % 10) + 1]>>

\* datetime.fromisoformat(text), as seconds from 2026-01-01 00:00:00
fromisoformat(text) ==
    (60 * ((10 * DigitValue(text[15])) + DigitValue(text[16])))
        + (10 * DigitValue(text[18])) + DigitValue(text[19])

\* the entry an if statement of to_dict adds to result
Entry(present, key, value) == IF present THEN key :> value ELSE EmptyDict

\* truth value of an optional string
Truthy(s) == s # None /\ s # ""

\* BackupScheduleStatus.to_dict leaving the next-backup time out
BackupScheduleStatus_to_dict_NoNext(st) ==
    ("phase" :> st.phase)
    @@ Entry(st.last_backup_time # NoValue, "lastBackupTime", isoformat(st.last_backup_time[1]))
    @@ Entry(Truthy(st.last_backup_name), "lastBackupName", st.last_backup_name)
    @@ Entry(Truthy(st.last_backup_status), "lastBackupStatus", st.last_backup_status)
    @@ Entry(Truthy(st.active_backup), "activeBackup", st.active_backup)

\* domain.py lines 442-459 (recent_backups and conditions are always empty)
BackupScheduleStatus_to_dict(st) ==
    ("phase" :> st.phase)
    @@ Entry(st.last_backup_time # NoValue, "lastBackupTime", isoformat(st.last_backup_time[1]))
    @@ Entry(Truthy(st.last_backup_name), "lastBackupName", st.last_backup_name)
    @@ Entry(Truthy(st.last_backup_status), "lastBackupStatus", st.last_backup_status)
    @@ Entry(st.next_backup_time # NoValue, "nextBackupTime", isoformat(st.next_backup_time[1]))
    @@ Entry(Truthy(st.active_backup), "activeBackup", st.active_backup)

\* domain.py lines 421-440
BackupScheduleStatus_from_dict(d) ==
    LET phase_str == DictGet(d, "phase", "Active")
    IN  BackupScheduleStatus(
            IF Truthy(phase_str) THEN phase_str ELSE "Active",
            IF DictGet(d, "lastBackupTime", <<>>) # <<>>
            THEN Some(fromisoformat(d["lastBackupTime"])) ELSE NoValue,
            DictGet(d, "lastBackupName", None),
            DictGet(d, "lastBackupStatus", None),
            IF DictGet(d, "nextBackupTime", <<>>) # <<>>
            THEN Some(fromisoformat(d["nextBackupTime"])) ELSE NoValue,
            DictGet(d, "activeBackup", None))

(***************************************************************************)
(* handlers.py: check_schedule, the timer of a QdrantBackupSchedule.  The  *)
(* framework stores what the handler returns as the status of the          *)
(* resource, and hands the stored status to the next run of the timer.     *)
(***************************************************************************)
\* CheckScheduleYield returning the status of every run
CheckScheduleYield_Always(result, current_status) ==
    Some(BackupScheduleStatus_to_dict(result))

\* lines 163-172: the status is returned when a backup was requested
CheckScheduleYield(result, current_status) ==
    IF result.last_backup_name # current_status.last_backup_name
    THEN Some(BackupScheduleStatus_to_dict(result))
    ELSE NoValue

\* lines 152-155: a suspended schedule makes the handler return None
CheckScheduleSuspended ==
    /\ pc = "idle"
    /\ spec.suspend
    /\ pc' = "returned"
    /\ yielded' = NoValue
    /\ stored_status' = stored_status
    /\ UNCHANGED <<calls, ret, raised, spec, credentials, collections, idx, backupVars,
                   restoreVars, scheduleVars, clusterVars, parallelVars>>

\* lines 152-161: the handler reads the stored status and enters execute
CheckSchedule(late) ==
    /\ pc = "idle"
    /\ ~ spec.suspend
    /\ ProcessScheduleExecute(BackupScheduleStatus_from_dict(stored_status), late)

\* lines 163-172: execute returned, the handler returns
CheckScheduleReturn ==
    /\ pc = "done"
    /\ pc' = "returned"
    /\ yielded' = CheckScheduleYield(ret, BackupScheduleStatus_from_dict(stored_status))
    /\ stored_status' = stored_status
    /\ UNCHANGED <<calls, ret, raised, spec, credentials, collections, idx, backupVars,
                   restoreVars, scheduleVars, clusterVars, parallelVars>>

\* the framework stores a returned status; the timer may run again
CheckSchedulePersist ==
    /\ pc = "returned"
    /\ stored_status' = IF yielded # NoValue THEN yielded[1] ELSE stored_status
    /\ yielded' = NoValue
    /\ pc' = "idle"
    /\ ret' = NoValue
    /\ calls' = <<>>
    /\ UNCHANGED <<raised, spec, credentials, collections, idx, backupVars,
                   restoreVars, scheduleVars, clusterVars, parallelVars>>

NextTimer ==
    \/ CheckScheduleSuspended
    \/ \E late \in 0..1 : CheckSchedule(late)
    \/ \E ok \in BOOLEAN : ScheduleCreateResource(ok)
    \/ CheckScheduleReturn
    \/ CheckSchedulePersist
    \/ ScheduleRequeue
    \/ Tick

\* a QdrantBackupSchedule exists, with its spec and its stored status map
InitTimer ==
    /\ pc = "idle"
    /\ calls = <<>>
    /\ ret = NoValue
    /\ raised = None
    /\ spec \in ScheduleSpecs
    /\ credentials = <<>>
    /\ collections = <<>>
    /\ idx = 0
    /\ snapshot = NoValue
    /\ total_size = 0
    /\ collection_statuses = <<>>
    /\ source_path = None
    /\ files = <<>>
    /\ progress = NoValue
    /\ restored = <<>>
    /\ clock \in 0..MaxStart
    /\ schedule_status = NoValue
    /\ now = 0
    /\ next_run = NoValue
    /\ lost = 0
    /\ fired = <<>>
    /\ release = "absent"
    /\ cluster_phase = None
    /\ local_files = EmptyDict
    /\ uploaded = <<>>
    /\ peer = NoPeer
    /\ yielded = NoValue
    /\ stored_status \in
           {EmptyDict} \cup
           {BackupScheduleStatus_to_dict(st) :
               st \in {FreshStatus} \cup {StatusAfterBackup(spec, t, outcome) :
                                             t \in 0..clock, outcome \in Outcomes}}

SpecTimer == InitTimer /\ [][NextTimer]_vars

(***************************************************************************)
(* handlers.py: execute_backup on the QdrantBackup a schedule submitted,   *)
(* with domain.py BackupSpec.from_dict.                                    *)
(***************************************************************************)
\* domain.py lines 248-275 (region, endpoint, forcePathStyle and
\* retentionDays are not modelled).  NoValue stands for the TypeError of
\* tuple(None) on line 273
BackupSpec_from_dict(spec_dict, meta) ==
    LET cluster_ref == spec_dict.clusterRef
        s3_spec     == spec_dict.storage.s3
        creds_ref   == s3_spec.credentialsSecretRef
        listed      == DictGet(spec_dict, "collections", Some(<<>>))
    IN  IF listed = NoValue THEN NoValue
        ELSE Some(
            ("cluster_ref" :> ClusterRef(cluster_ref.name,
                                         DictGet(cluster_ref, "namespace", "default")))
            @@ [BackupSpec(meta.name,
                           [S3StorageSpec(s3_spec.bucket, DictGet(s3_spec, "prefix", ""))
                               EXCEPT !.credentials_secret_ref =
                                   SecretRef(creds_ref.name,
                                             DictGet(creds_ref, "accessKeyIdKey",
                                                     "AWS_ACCESS_KEY_ID"),
                                             "default")],
                           listed[1])
                  EXCEPT !.namespace = meta.namespace])

\* the request body of the create_resource call that was accepted last
SubmittedBody ==
    LET k == CHOOSE k \in DOMAIN calls :
                 /\ calls[k].op = "create_resource"
                 /\ calls[k].err = None
                 /\ \A j \in DOMAIN calls :
                       (calls[j].op = "create_resource" /\ calls[j].err = None) => j <= k
    IN  calls[k].args[5]

\* handlers.py lines 62-87: the QdrantBackup was created, execute_backup
\* parses it and enters ExecuteBackup.execute (line 115) with the BackupSpec;
\* an exception of from_dict leaves the handler
ExecuteBackupHandler ==
    /\ pc = "done"
    /\ \E k \in DOMAIN calls : calls[k].op = "create_resource" /\ calls[k].err = None
    /\ LET backup_spec == BackupSpec_from_dict(SubmittedBody.spec, SubmittedBody.metadata)
       IN  IF backup_spec = NoValue
           THEN /\ pc' = "raised"
                /\ raised' = "'NoneType' object is not iterable"
                /\ spec' = spec
           ELSE /\ pc' = "b_access_key"
                /\ raised' = raised
                /\ spec' = backup_spec[1]
    /\ UNCHANGED <<calls, ret, credentials, collections, idx, backupVars,
                   restoreVars, scheduleVars, clusterVars, parallelVars, handlerVars>>

\* schedules that name collections, or none
ScheduledBackupSpecs ==
    {[sp EXCEPT !.collections = cs] :
        sp \in {s \in ScheduleSpecs : ~ s.suspend},
        cs \in SeqsUpTo(CollectionNames, MaxCollections)}

NextScheduledBackup ==
    \/ \E late \in 0..1 : CheckSchedule(late)
    \/ \E ok \in BOOLEAN : ScheduleCreateResource(ok)
    \/ ExecuteBackupHandler
    \/ ScheduleRequeue
    \/ Tick

\* a QdrantBackupSchedule exists, with its spec and its stored status map
InitScheduledBackup ==
    /\ pc = "idle"
    /\ calls = <<>>
    /\ ret = NoValue
    /\ raised = None
    /\ spec \in ScheduledBackupSpecs
    /\ credentials = <<>>
    /\ collections = <<>>
    /\ idx = 0
    /\ snapshot = NoValue
    /\ total_size = 0
    /\ collection_statuses = <<>>
    /\ source_path = None
    /\ files = <<>>
    /\ progress = NoValue
    /\ restored = <<>>
    /\ clock \in 0..MaxStart
    /\ schedule_status = NoValue
    /\ now = 0
    /\ next_run = NoValue
    /\ lost = 0
    /\ fired = <<>>
    /\ release = "absent"
    /\ cluster_phase = None
    /\ local_files = EmptyDict
    /\ uploaded = <<>>
    /\ peer = NoPeer
    /\ yielded = NoValue
    /\ stored_status \in
           {BackupScheduleStatus_to_dict(StatusAfterBackup(spec, t, outcome)) :
               t \in 0..clock, outcome \in Outcomes}

SpecScheduledBackup == InitScheduledBackup /\ [][NextScheduledBackup]_vars

(***************************************************************************)
(* ReconcileCluster and DeleteCluster (usecases.py lines 38-104) over the  *)
(* Helm adapter.  release is what Helm holds under the release name of the *)
(* one cluster identity: "absent", "deployed" or "failed".                 *)
(***************************************************************************)
ServicePort == 6333

QDRANT_HELM_CHART == "qdrant/qdrant"

ClusterSpec(name, namespace, version, replicas) ==
    [kind |-> "ClusterSpec", name |-> name, namespace |-> namespace,
     version |-> version, replicas |-> replicas, cluster_enabled |-> TRUE,
     metrics_enabled |-> FALSE]

Versions == {"1.7.0", "v1.8.0"}
ReplicaCounts == {1, 3}

\* one cluster identity, several desired states
ClusterSpecs ==
    {ClusterSpec("main", "default", version, replicas) :
        version \in Versions, replicas \in ReplicaCounts}

ClusterStatus(phase, replicas, ready_replicas, helm_release, endpoint, version, conditions) ==
    [phase |-> phase, replicas |-> replicas, ready_replicas |-> ready_replicas,
     helm_release |-> helm_release, endpoint |-> endpoint, version |-> version,
     conditions |-> conditions, observed_generation |-> NoValue]

\* domain.py lines 189-197 (the transition time is not modelled)
Condition_to_dict(c) ==
    [type |-> c.type, status |-> c.status, reason |-> c.reason, message |-> c.message]

\* domain.py lines 213-224
ClusterStatus_to_dict(st) ==
    [phase |-> st.phase,
     replicas |-> st.replicas,
     readyReplicas |-> st.ready_replicas,
     helmRelease |-> st.helm_release,
     endpoint |-> st.endpoint,
     version |-> st.version,
     conditions |-> [i \in DOMAIN st.conditions |-> Condition_to_dict(st.conditions[i])],
     observedGeneration |-> st.observed_generation]

\* ReleaseName without the prefix
ReleaseName_Bare(sp) == sp.name

\* line 47 and line 103
ReleaseName(sp) == "qdrant-" \o sp.name

\* spec.version.startswith("v")
StartsWithV(version) == version \in {"v1.8.0"}

\* domain.py lines 597-643, for a spec with default persistence, no resource
\* requirements and metrics disabled
build_helm_values(sp) ==
    [replicaCount |-> sp.replicas,
     image |-> [tag |-> IF StartsWithV(sp.version) THEN sp.version ELSE "v" \o sp.version],
     persistence |-> [size |-> "10Gi", accessModes |-> <<"ReadWriteOnce">>],
     config |-> [cluster |-> [enabled |-> sp.cluster_enabled]]]

\* kubernetes_adapter.py lines 151-158
ServiceEndpoint(name, namespace) ==
    "http://" \o name \o "." \o namespace \o ".svc.cluster.local:" \o ToString(ServicePort)

\* ClusterStatusOf reporting every requested replica as ready
ClusterStatusOf_AllReady(sp, ph, endpoint) ==
    ClusterStatus(ph, sp.replicas, sp.replicas, ReleaseName(sp), endpoint, sp.version,
                  <<Condition("Reconciling", "True", "HelmReleaseUpdated",
                              "Helm release " \o ReleaseName(sp) \o " updated")>>)

\* lines 76-92
ClusterStatusOf(sp, ph, endpoint) ==
    ClusterStatus(ph, sp.replicas, 0, ReleaseName(sp), endpoint, sp.version,
                  <<Condition("Reconciling", "True", "HelmReleaseUpdated",
                              "Helm release " \o ReleaseName(sp) \o " updated")>>)

\* DeployStep that installs whatever the status query returned
DeployStep_InstallAlways(existing) == "c_install"

\* line 52: if not existing
DeployStep(existing) == IF existing = NoValue THEN "c_install" ELSE "c_upgrade"

\* ReconcileDeployRaise swallowing the exception and going on
ReconcileDeployRaise_Continue(e) ==
    /\ pc' = "c_get_service_endpoint"
    /\ raised' = raised

\* lines 53-68: an exception of install or upgrade is not caught, it leaves
\* execute
ReconcileDeployRaise(e) ==
    /\ pc' = "raised"
    /\ raised' = e

\* line 45: ReconcileCluster.execute is entered with a ClusterSpec
InvokeReconcile(sp) ==
    /\ pc = "idle"
    /\ spec' = sp
    /\ pc' = "c_get_release_status"
    /\ UNCHANGED <<calls, ret, raised, credentials, collections, idx, backupVars,
                   restoreVars, scheduleVars, parallelVars, clusterVars>>
    /\ UNCHANGED handlerVars

\* line 50 over helm_adapter.py lines 99-118: helm status fails when the
\* release is absent and may fail when it is not; the adapter turns every
\* failure into None
ReconcileGetReleaseStatus(found) ==
    /\ pc = "c_get_release_status"
    /\ found => release # "absent"
    /\ LET existing == IF found THEN Some([info |-> [status |-> release]]) ELSE NoValue
       IN  /\ calls' = Append(calls, Call("get_release_status",
                                          <<ReleaseName(spec), spec.namespace>>,
                                          0, TRUE, existing, None))
           /\ pc' = DeployStep(existing)
    /\ UNCHANGED <<ret, raised, spec, credentials, collections, idx, backupVars,
                   restoreVars, scheduleVars, parallelVars, clusterVars>>
    /\ UNCHANGED handlerVars

\* lines 53-60 over helm_adapter.py lines 22-52: helm install refuses a name
\* that is in use; a failed install leaves no release or a failed one
ReconcileInstall(ok, left) ==
    /\ pc = "c_install"
    /\ ok => release = "absent"
    /\ calls' = Append(calls, Call("install",
                                   <<ReleaseName(spec), spec.namespace, QDRANT_HELM_CHART,
                                     build_helm_values(spec), spec.version>>,
                                   0, ok, ReleaseName(spec),
                                   ErrorText("install", ReleaseName(spec))))
    /\ IF ok
       THEN /\ release' = "deployed"
            /\ cluster_phase' = "Pending"
            /\ pc' = "c_get_service_endpoint"
            /\ raised' = raised
       ELSE /\ release' = IF release = "absent" THEN left ELSE release
            /\ cluster_phase' = cluster_phase
            /\ ReconcileDeployRaise(ErrorText("install", ReleaseName(spec)))
    /\ UNCHANGED <<ret, spec, credentials, collections, idx, backupVars,
                   restoreVars, scheduleVars, parallelVars>>
    /\ UNCHANGED handlerVars

\* lines 62-69 over helm_adapter.py lines 54-83: helm upgrade needs the
\* release; a failed upgrade keeps it, possibly as failed
ReconcileUpgrade(ok, left) ==
    /\ pc = "c_upgrade"
    /\ ok => release # "absent"
    /\ calls' = Append(calls, Call("upgrade",
                                   <<ReleaseName(spec), spec.namespace, QDRANT_HELM_CHART,
                                     build_helm_values(spec), spec.version>>,
                                   0, ok, ReleaseName(spec),
                                   ErrorText("upgrade", ReleaseName(spec))))
    /\ IF ok
       THEN /\ release' = "deployed"
            /\ cluster_phase' = "Upgrading"
            /\ pc' = "c_get_service_endpoint"
            /\ raised' = raised
       ELSE /\ release' = IF release = "absent" THEN release ELSE left
            /\ cluster_phase' = cluster_phase
            /\ ReconcileDeployRaise(ErrorText("upgrade", ReleaseName(spec)))
    /\ UNCHANGED <<ret, spec, credentials, collections, idx, backupVars,
                   restoreVars, scheduleVars, parallelVars>>
    /\ UNCHANGED handlerVars

\* lines 71-92: get_service_endpoint, then the return
ReconcileGetServiceEndpoint ==
    /\ pc = "c_get_service_endpoint"
    /\ LET endpoint == ServiceEndpoint(ReleaseName(spec), spec.namespace)
       IN  /\ calls' = Append(calls, Call("get_service_endpoint",
                                          <<ReleaseName(spec), spec.namespace>>,
                                          0, TRUE, endpoint, None))
           /\ ret' = ClusterStatusOf(spec, cluster_phase, endpoint)
    /\ pc' = "done"
    /\ UNCHANGED <<raised, spec, credentials, collections, idx, backupVars,
                   restoreVars, scheduleVars, parallelVars, clusterVars>>
    /\ UNCHANGED handlerVars

\* line 101: DeleteCluster.execute is entered with a ClusterSpec
InvokeDelete(sp) ==
    /\ pc = "idle"
    /\ spec' = sp
    /\ pc' = "d_uninstall"
    /\ UNCHANGED <<calls, ret, raised, credentials, collections, idx, backupVars,
                   restoreVars, scheduleVars, parallelVars, clusterVars>>
    /\ UNCHANGED handlerVars

\* lines 103-104 over helm_adapter.py lines 85-97: helm uninstall fails when
\* the release is absent; nothing is returned
DeleteUninstall(ok) ==
    /\ pc = "d_uninstall"
    /\ ok => release # "absent"
    /\ calls' = Append(calls, Call("uninstall", <<ReleaseName(spec), spec.namespace>>,
                                   0, ok, None, ErrorText("uninstall", ReleaseName(spec))))
    /\ IF ok
       THEN /\ release' = "absent"
            /\ pc' = "done"
            /\ raised' = raised
       ELSE /\ release' = release
            /\ pc' = "raised"
            /\ raised' = ErrorText("uninstall", ReleaseName(spec))
    /\ UNCHANGED <<ret, spec, credentials, collections, idx, backupVars,
                   restoreVars, scheduleVars, parallelVars, cluster_phase>>
    /\ UNCHANGED handlerVars

\* handlers.py line 45: reconcile_cluster returns result.to_dict()
ReconcileClusterReturn ==
    /\ pc = "done"
    /\ ret # NoValue
    /\ pc' = "returned"
    /\ yielded' = Some(ClusterStatus_to_dict(ret))
    /\ stored_status' = stored_status
    /\ UNCHANGED <<calls, ret, raised, spec, credentials, collections, idx, backupVars,
                   restoreVars, scheduleVars, parallelVars, clusterVars>>

\* the handler is over (delete_cluster returns nothing); the framework
\* serializes the next one for the same cluster after it
ClusterNextEvent ==
    /\ pc \in {"returned", "raised"} \/ (pc = "done" /\ ret = NoValue)
    /\ pc' = "idle"
    /\ calls' = <<>>
    /\ ret' = NoValue
    /\ raised' = None
    /\ cluster_phase' = None
    /\ yielded' = NoValue
    /\ stored_status' = stored_status
    /\ UNCHANGED <<spec, credentials, collections, idx, backupVars,
                   restoreVars, scheduleVars, parallelVars, release>>

NextCluster ==
    \/ \E sp \in ClusterSpecs : InvokeReconcile(sp)
    \/ \E found \in BOOLEAN : ReconcileGetReleaseStatus(found)
    \/ \E ok \in BOOLEAN, left \in {"absent", "failed"} : ReconcileInstall(ok, left)
    \/ \E ok \in BOOLEAN, left \in {"deployed", "failed"} : ReconcileUpgrade(ok, left)
    \/ ReconcileGetServiceEndpoint
    \/ \E sp \in ClusterSpecs : InvokeDelete(sp)
    \/ \E ok \in BOOLEAN : DeleteUninstall(ok)
    \/ ReconcileClusterReturn
    \/ ClusterNextEvent

(***************************************************************************)
(* The system.                                                             *)
(***************************************************************************)
Init ==
    /\ pc = "idle"
    /\ calls = <<>>
    /\ ret = NoValue
    /\ raised = None
    /\ spec = NoValue
    /\ credentials = <<>>
    /\ collections = <<>>
    /\ idx = 0
    /\ snapshot = NoValue
    /\ total_size = 0
    /\ collection_statuses = <<>>
    /\ source_path = None
    /\ files = <<>>
    /\ progress = NoValue
    /\ restored = <<>>
    /\ clock = 0
    /\ schedule_status = NoValue
    /\ now = 0
    /\ next_run = NoValue
    /\ lost = 0
    /\ fired = <<>>
    /\ release = "absent"
    /\ cluster_phase = None
    /\ local_files = EmptyDict
    /\ uploaded = <<>>
    /\ peer = NoPeer
    /\ yielded = NoValue
    /\ stored_status = EmptyDict

Next == NextBackup \/ NextRestore

Spec == Init /\ [][Next]_vars

(***************************************************************************)
(* Two ExecuteRestore.execute invocations for different restore resources  *)
(* in one operator process.  The first is the invocation of the actions    *)
(* above; peer is the second, followed through its loop (lines 231-275),   *)
(* where it shares the local files with the first.  Each await is a point  *)
(* where the event loop may switch between the two.                        *)
(***************************************************************************)
\* the peer restores from another backup: its listing holds one snapshot
\* for every collection it restores
PeerSnapshotKey(collection) == <<"other", collection, "x.snapshot">>

\* the peer's loop is at collections[i], or past the end
PeerAt(i) ==
    [peer EXCEPT !.idx = i,
                 !.pc = IF i > Len(peer.collections) THEN "done" ELSE "download_file"]

\* line 244 in the peer
PeerDownloadFile(ok) ==
    /\ peer.pc = "download_file"
    /\ LET collection == peer.collections[peer.idx]
           local_path == LocalPath(peer.name, collection)
       IN  IF ok
           THEN /\ local_files' = WriteFile(local_files, local_path,
                                            FileContent(peer.name, PeerSnapshotKey(collection)))
                /\ peer' = [peer EXCEPT !.pc = "recover_from_snapshot"]
           ELSE /\ local_files' = local_files
                /\ peer' = PeerAt(peer.idx + 1)
    /\ UNCHANGED <<pc, calls, ret, raised, spec, credentials, collections, idx,
                   backupVars, restoreVars, scheduleVars, clusterVars, uploaded>>
    /\ UNCHANGED handlerVars

\* lines 246-248 in the peer
PeerRecoverFromSnapshot(ok) ==
    /\ peer.pc = "recover_from_snapshot"
    /\ LET collection == peer.collections[peer.idx]
           local_path == LocalPath(peer.name, collection)
       IN  uploaded' = Append(uploaded, Upload(peer.name, collection, local_path,
                                               local_files[local_path]))
    /\ peer' = IF ok THEN [peer EXCEPT !.pc = "get_collection_info"]
               ELSE PeerAt(peer.idx + 1)
    /\ UNCHANGED <<pc, calls, ret, raised, spec, credentials, collections, idx,
                   backupVars, restoreVars, scheduleVars, clusterVars, local_files>>
    /\ UNCHANGED handlerVars

\* lines 250-275 in the peer: the collection counts as restored when its
\* info was read, and either way the iteration is over
PeerGetCollectionInfo(ok) ==
    /\ peer.pc = "get_collection_info"
    /\ peer' = [PeerAt(peer.idx + 1) EXCEPT !.completed = IF ok THEN @ + 1 ELSE @]
    /\ UNCHANGED <<pc, calls, ret, raised, spec, credentials, collections, idx,
                   backupVars, restoreVars, scheduleVars, clusterVars,
                   local_files, uploaded>>
    /\ UNCHANGED handlerVars

\* the collection lists of the two restores
ParallelCollections == {<<"colA">>, <<"colB">>, <<"colA", "colB">>}

ParallelRestoreSpecs ==
    {RestoreSpec("rs", NoValue, Some(S3StorageSpec("bucket", "src")), cs, EmptyDict) :
        cs \in ParallelCollections}

ParallelListings ==
    {<< <<"src", "colA", "x.snapshot">> >>,
     << <<"src", "colA", "x.snapshot">>, <<"src", "colB", "x.snapshot">> >>}

NextParallelRestore ==
    \/ \E sp \in ParallelRestoreSpecs : InvokeRestore(sp)
    \/ \E ok \in BOOLEAN : RestoreGetAccessKey(ok)
    \/ \E ok \in BOOLEAN : RestoreGetSecretKey(ok)
    \/ \E ok \in BOOLEAN, result \in ParallelListings : RestoreListFiles(ok, result)
    \/ RestoreBeginCollection
    \/ \E ok \in BOOLEAN : RestoreDownloadFile(ok)
    \/ \E ok \in BOOLEAN : RestoreRecoverFromSnapshot(ok)
    \/ \E ok \in BOOLEAN, points_count \in PointCounts : RestoreGetCollectionInfo(ok, points_count)
    \/ RestoreReturn
    \/ \E ok \in BOOLEAN : PeerDownloadFile(ok)
    \/ \E ok \in BOOLEAN : PeerRecoverFromSnapshot(ok)
    \/ \E ok \in BOOLEAN : PeerGetCollectionInfo(ok)

\* the first restore not yet invoked, the second, named "rs2", at the start
\* of its loop
InitParallelRestore ==
    /\ pc = "idle"
    /\ calls = <<>>
    /\ ret = NoValue
    /\ raised = None
    /\ spec = NoValue
    /\ credentials = <<>>
    /\ collections = <<>>
    /\ idx = 0
    /\ snapshot = NoValue
    /\ total_size = 0
    /\ collection_statuses = <<>>
    /\ source_path = None
    /\ files = <<>>
    /\ progress = NoValue
    /\ restored = <<>>
    /\ clock = 0
    /\ schedule_status = NoValue
    /\ now = 0
    /\ next_run = NoValue
    /\ lost = 0
    /\ fired = <<>>
    /\ release = "absent"
    /\ cluster_phase = None
    /\ local_files = EmptyDict
    /\ uploaded = <<>>
    /\ peer \in {[pc |-> "download_file", name |-> "rs2", collections |-> cs, idx |-> 1,
                  completed |-> 0] :
                    cs \in ParallelCollections}
    /\ yielded = NoValue
    /\ stored_status = EmptyDict

SpecParallelRestore == InitParallelRestore /\ [][NextParallelRestore]_vars

(***************************************************************************)
(* ExecuteRestore over long explicit collection lists: a direct storage    *)
(* source, up to MaxTotal named collections, and a listing that holds a    *)
(* snapshot for at most the first of them.                                 *)
(***************************************************************************)
ManyCollections(n) == [i \in 1..n |-> "col" \o ToString(i)]

LargeRestoreSpecs ==
    {RestoreSpec("rs", NoValue, Some(S3StorageSpec("bucket", "src")),
                 ManyCollections(n), EmptyDict) : n \in 1..MaxTotal}

LargeListings == {<<>>, << <<"src", "col1", "x.snapshot">> >>}

NextRestoreLarge ==
    \/ \E sp \in LargeRestoreSpecs : InvokeRestore(sp)
    \/ \E ok \in BOOLEAN : RestoreGetAccessKey(ok)
    \/ \E ok \in BOOLEAN : RestoreGetSecretKey(ok)
    \/ \E ok \in BOOLEAN, result \in LargeListings : RestoreListFiles(ok, result)
    \/ RestoreBeginCollection
    \/ \E ok \in BOOLEAN : RestoreDownloadFile(ok)
    \/ \E ok \in BOOLEAN : RestoreRecoverFromSnapshot(ok)
    \/ \E ok \in BOOLEAN, points_count \in PointCounts : RestoreGetCollectionInfo(ok, points_count)
    \/ RestoreReturn

SpecRestoreLarge == Init /\ [][NextRestoreLarge]_vars

\* every awaited port call returns or raises (the adapters' requests carry
\* timeouts), and the event loop resumes the coroutine after it
SpecFair == Init /\ [][Next]_vars /\ WF_vars(Next)

\* the cluster handlers over one cluster identity, no release to begin with
SpecCluster == Init /\ [][NextCluster]_vars

(***************************************************************************)
(* What the environment did, read off the call log.                        *)
(***************************************************************************)
\* the use case of the given kind was invoked
Invoked(kind) == pc # "idle" /\ spec.kind = kind
BackupDone  == pc = "done" /\ spec.kind = "BackupSpec"
RestoreDone == pc = "done" /\ spec.kind = "RestoreSpec"

\* the port calls of loop iteration i that raised, in order
RaisedIn(i) == SelectSeq(calls, LAMBDA c : c.iter = i /\ c.err # None)

\* the error that ended iteration i of ExecuteBackup's loop, None if none did
BackupIterError(i) == IF RaisedIn(i) = <<>> THEN None ELSE RaisedIn(i)[1].err

\* the same for ExecuteRestore, where a missing snapshot key fails the
\* iteration before any port is called
RestoreIterError(i) ==
    IF ~ \E k \in DOMAIN files :
            HasSegment(files[k], collections[i]) /\ EndsWithSnapshot(files[k])
    THEN "No snapshot found for collection " \o collections[i]
    ELSE IF RaisedIn(i) = <<>> THEN None ELSE RaisedIn(i)[1].err

\* the errors of the failing iterations, in processing order
BackupErrors ==
    SelectSeq([i \in 1..Len(collections) |-> BackupIterError(i)], LAMBDA e : e # None)
RestoreErrors ==
    SelectSeq([i \in 1..Len(collections) |-> RestoreIterError(i)], LAMBDA e : e # None)

\* size_bytes of the snapshot created in iteration i (0 if none was)
CreatedSize(i) ==
    LET made == SelectSeq(calls, LAMBDA c :
                    c.iter = i /\ c.op = "create_snapshot" /\ c.err = None)
    IN  IF made = <<>> THEN 0 ELSE made[1].result[1]

ErrorsOf(entries) == [j \in 1..Len(entries) |-> entries[j].error]

(***************************************************************************)
(* C1: the BackupStatus returned by ExecuteBackup.execute has phase Failed *)
(* if and only if a step failed for at least one collection, and phase     *)
(* Completed otherwise.                                                    *)
(***************************************************************************)
C1_BackupPhaseFailedIffCollectionFailed ==
    BackupDone =>
        /\ ret.phase = "Failed" <=> \E i \in 1..Len(collections) : BackupIterError(i) # None
        /\ ret.phase = "Completed" <=> \A i \in 1..Len(collections) : BackupIterError(i) = None

C1_Witness ==
    /\ BackupDone
    /\ Len(collections) = 2
    /\ BackupIterError(1) = None
    /\ BackupIterError(2) # None
    /\ ret.phase = "Failed"

(***************************************************************************)
(* C2: in the status returned by ExecuteBackup.execute and by              *)
(* ExecuteRestore.execute the error is absent when no item failed, else it *)
(* is the error text of the first failing item in processing order; every  *)
(* item keeps its own outcome in the list.                                 *)
(***************************************************************************)
C2_FirstErrorSurfaced ==
    /\ BackupDone =>
          /\ ret.error = IF BackupErrors = <<>> THEN None ELSE BackupErrors[1]
          /\ ErrorsOf(SelectStatus(ret.collections, "Failed")) = BackupErrors
          /\ \A i \in 1..Len(collections) :
                \E j \in DOMAIN ret.collections :
                    /\ ret.collections[j].name = collections[i]
                    /\ ret.collections[j].error = BackupIterError(i)
                    /\ ret.collections[j].status =
                          IF BackupIterError(i) = None THEN "Completed" ELSE "Failed"
    /\ RestoreDone =>
          /\ ret.error = IF RestoreErrors = <<>> THEN None ELSE RestoreErrors[1]
          /\ ErrorsOf(SelectStatus(ret.restored_collections, "Failed")) = RestoreErrors
          /\ \A i \in 1..Len(collections) :
                \E j \in DOMAIN ret.restored_collections :
                    /\ ret.restored_collections[j].name = TargetName(spec, collections[i])
                    /\ ret.restored_collections[j].error = RestoreIterError(i)
                    /\ ret.restored_collections[j].status =
                          IF RestoreIterError(i) = None THEN "Completed" ELSE "Failed"

C2_Witness ==
    /\ BackupDone
    /\ Len(BackupErrors) = 2
    /\ BackupErrors[1] # BackupErrors[2]
    /\ ret.error = BackupErrors[1]

(***************************************************************************)
(* C3: a failing step of one collection never aborts ExecuteBackup:        *)
(* nothing raised inside the loop leaves execute, and create_snapshot is   *)
(* attempted for every collection of the set.                              *)
(***************************************************************************)
C3_BackupStepFailureNeverAborts ==
    /\ (Invoked("BackupSpec") /\ pc = "raised") =>
          \A k \in DOMAIN calls : calls[k].iter = 0
    /\ BackupDone =>
          \A i \in 1..Len(collections) :
              \E k \in DOMAIN calls :
                  /\ calls[k].op = "create_snapshot"
                  /\ calls[k].iter = i
                  /\ calls[k].args = <<collections[i]>>

C3_Witness ==
    /\ BackupDone
    /\ Len(collections) = 2
    /\ BackupIterError(1) # None
    /\ \E k \in DOMAIN calls : calls[k].op = "create_snapshot" /\ calls[k].iter = 2

(***************************************************************************)
(* C4: the collection-status list returned by ExecuteBackup.execute holds  *)
(* exactly one entry per collection attempted, in input order, each with a *)
(* terminal status, whichever step failed.                                 *)
(***************************************************************************)
C4_OneEntryPerCollection ==
    BackupDone =>
        /\ Len(ret.collections) = Len(collections)
        /\ \A i \in 1..Len(ret.collections) :
              /\ ret.collections[i].status \in {"Completed", "Failed"}
              /\ i <= Len(collections) => ret.collections[i].name = collections[i]

(***************************************************************************)
(* C5: the total size returned by ExecuteBackup.execute is the formatted   *)
(* sum of the snapshot sizes of the collections for which no step failed.  *)
(***************************************************************************)
C5_TotalSizeOfSuccessfulOnly ==
    BackupDone =>
        ret.total_size =
            format_size(SumSeq([i \in 1..Len(collections) |->
                                   IF BackupIterError(i) = None THEN CreatedSize(i) ELSE 0]))

(***************************************************************************)
(* C6: when resolving either storage credential fails, ExecuteBackup       *)
(* raises, returns no status, has called no database or object-storage     *)
(* operation and has recorded no per-collection failure.                   *)
(***************************************************************************)
C6_CredentialFailureAborts ==
    (/\ Invoked("BackupSpec")
     /\ \E k \in DOMAIN calls : calls[k].op = "get_secret_value" /\ calls[k].err # None)
    => /\ pc = "raised"
       /\ raised # None
       /\ ret = NoValue
       /\ \A k \in DOMAIN calls : calls[k].op = "get_secret_value"
       /\ collection_statuses = <<>>

C6_Witness ==
    /\ Invoked("BackupSpec")
    /\ pc = "raised"
    /\ Len(calls) = 2
    /\ calls[1].err = None
    /\ calls[2].op = "get_secret_value"
    /\ calls[2].err # None

(***************************************************************************)
(* C7: ExecuteBackup.execute on an empty collection set returns phase      *)
(* Completed, an empty collection-status list, total size "0.0B" and no    *)
(* error.                                                                  *)
(***************************************************************************)
C7_EmptyBackup ==
    (BackupDone /\ collections = <<>>) =>
        /\ ret.phase = "Completed"
        /\ ret.collections = <<>>
        /\ ret.total_size = "0.0B"
        /\ ret.error = None

C7_Witness ==
    /\ BackupDone
    /\ spec.collections = <<>>
    /\ collections = <<>>
    /\ \E k \in DOMAIN calls : calls[k].op = "list_collections" /\ calls[k].err = None

(***************************************************************************)
(* C8: no per-collection failure of ExecuteRestore (snapshot key missing,  *)
(* download, recovery or collection-info error) leaves execute; the        *)
(* returned list holds exactly one RestoredCollection per collection, in   *)
(* processing order, Failed with the error text where the collection       *)
(* failed and Completed elsewhere.                                         *)
(***************************************************************************)
C8_RestoreStepFailureNeverAborts ==
    /\ (Invoked("RestoreSpec") /\ pc = "raised") =>
          /\ idx = 0
          /\ restored = <<>>
          /\ \A k \in DOMAIN calls : calls[k].iter = 0
    /\ RestoreDone =>
          /\ Len(ret.restored_collections) = Len(collections)
          /\ \A i \in 1..Len(collections) :
                /\ ret.restored_collections[i].name = TargetName(spec, collections[i])
                /\ ret.restored_collections[i].error = RestoreIterError(i)
                /\ ret.restored_collections[i].status =
                      IF RestoreIterError(i) = None THEN "Completed" ELSE "Failed"

C8_Witness ==
    /\ RestoreDone
    /\ Len(collections) = 2
    /\ RestoreIterError(1) # None
    /\ RaisedIn(1) # <<>>
    /\ ret.restored_collections[1].status = "Failed"
    /\ ret.restored_collections[2].status = "Completed"

(***************************************************************************)
(* C9: the RestoreStatus returned by ExecuteRestore.execute has phase      *)
(* Failed if and only if a restored-collection entry is Failed, and phase  *)
(* Completed otherwise, the empty collection set included.                 *)
(***************************************************************************)
C9_RestorePhaseFailedIffEntryFailed ==
    RestoreDone =>
        LET anyFailed == \E j \in DOMAIN ret.restored_collections :
                             ret.restored_collections[j].status = "Failed"
        IN  /\ ret.phase = "Failed" <=> anyFailed
            /\ ret.phase = "Completed" <=> ~anyFailed
            /\ RestoreErrors # <<>> <=> anyFailed

C9_Witness ==
    /\ RestoreDone
    /\ ret.phase = "Failed"
    /\ \E j \in DOMAIN ret.restored_collections :
           ret.restored_collections[j].status = "Completed"

(***************************************************************************)
(* C10: source resolution of ExecuteRestore.  A looked-up backup resource  *)
(* that records a storage path gives the source; a lookup that yields no   *)
(* resource or no path falls through to the prefix of the direct storage   *)
(* source; when neither resolves execute raises before any secret,         *)
(* object-storage or database call.                                        *)
(***************************************************************************)
\* the backup reference was given and its lookup returned
LookupReturned ==
    /\ spec.backup_ref # NoValue
    /\ calls # <<>>
    /\ calls[1].op = "get_resource"
    /\ calls[1].err = None

\* the looked-up resource records a storage path
LookupHasPath ==
    /\ LookupReturned
    /\ calls[1].result[1] # NoValue
    /\ "status" \in DOMAIN calls[1].result[1][1]
    /\ "s3Path" \in DOMAIN calls[1].result[1][1].status
    /\ calls[1].result[1][1].status.s3Path # ""

C10_SourceResolution ==
    (/\ Invoked("RestoreSpec")
     /\ pc # "r_get_resource"
     /\ spec.backup_ref # NoValue => LookupReturned)
    => /\ LookupHasPath => source_path = calls[1].result[1][1].status.s3Path
       /\ (~LookupHasPath /\ spec.source_s3 # NoValue) =>
              source_path = spec.source_s3[1].prefix
       /\ (~LookupHasPath /\ spec.source_s3 = NoValue) =>
              /\ pc = "raised"
              /\ raised = "No valid backup source found"
              /\ ret = NoValue
              /\ \A k \in DOMAIN calls : calls[k].op = "get_resource"
       /\ pc = "done" => ret.source_backup = source_path

C10_Witness ==
    /\ Invoked("RestoreSpec")
    /\ LookupHasPath
    /\ spec.source_s3 # NoValue
    /\ pc = "done"
    /\ ret.source_backup = "s3://bucket/pfx/bk"

(***************************************************************************)
(* C11: a RestoreSpec that gives only a backup reference, whose backup     *)
(* resource records a storage path, is a resolvable configuration:         *)
(* ExecuteRestore.execute uses the recorded path as the source and does    *)
(* not raise a configuration error.                                        *)
(***************************************************************************)
C11_BackupRefOnlyResolves ==
    (/\ Invoked("RestoreSpec")
     /\ spec.source_s3 = NoValue
     /\ LookupHasPath)
    => /\ source_path = calls[1].result[1][1].status.s3Path
       /\ ~ (/\ pc = "raised"
             /\ raised \in {"No storage configuration found",
                            "No valid backup source found"})

(***************************************************************************)
(* C12: when the RestoreSpec lists no collections, the processed           *)
(* collection list is exactly the set of second-to-last path segments of   *)
(* the listed remote keys, without duplicates and in ascending             *)
(* lexicographic order; when the spec lists collections, that list is used *)
(* in its given order.                                                     *)
(***************************************************************************)
\* list_files returned; its result is the listed remote keys
ListFilesReturned == \E k \in DOMAIN calls : calls[k].op = "list_files" /\ calls[k].err = None
Listed == (CHOOSE c \in {calls[k] : k \in DOMAIN calls} : c.op = "list_files").result[1]

\* the place of a segment name in lexicographic order
Rank(n) == CHOOSE k \in DOMAIN LexOrder : LexOrder[k] = n

C12_ProcessedCollections ==
    (Invoked("RestoreSpec") /\ ListFilesReturned)
    => IF spec.collections # <<>>
       THEN collections = spec.collections
       ELSE /\ {collections[i] : i \in DOMAIN collections}
                 = {Listed[k][Len(Listed[k]) - 1] :
                        k \in {j \in DOMAIN Listed : Len(Listed[j]) >= 2}}
            /\ \A i, j \in DOMAIN collections :
                   i < j => Rank(collections[i]) < Rank(collections[j])

C12_Witness ==
    /\ Invoked("RestoreSpec")
    /\ ListFilesReturned
    /\ spec.collections = <<>>
    /\ Listed = << <<"src", "colB", "x.snapshot">>, <<"src", "colA", "x.snapshot">> >>
    /\ collections = <<"colA", "colB">>

(***************************************************************************)
(* C13: the final progress of every RestoreStatus returned by              *)
(* ExecuteRestore.execute has collections total = number of collections    *)
(* processed, collections completed = total minus the number of Failed     *)
(* entries, and percentage = 100, also when failures occurred.             *)
(***************************************************************************)
FailedEntries(entries) == {j \in DOMAIN entries : entries[j].status = "Failed"}

C13_FinalProgress ==
    RestoreDone
    => /\ ret.progress.collections_total = Len(collections)
       /\ ret.progress.collections_completed =
              ret.progress.collections_total
                  - Cardinality(FailedEntries(ret.restored_collections))
       /\ ret.progress.percentage = 100

C13_Witness ==
    /\ RestoreDone
    /\ Len(collections) = 2
    /\ Cardinality(FailedEntries(ret.restored_collections)) = 1
    /\ ret.progress.collections_completed = 1
    /\ ret.progress.percentage = 100

(***************************************************************************)
(* C14: every RestoreProgress value produced during ExecuteRestore.execute *)
(* has a percentage within [0,100], and the percentage equals 100 exactly  *)
(* in the finalized progress: every running progress computed before a     *)
(* collection begins is below 100.                                         *)
(***************************************************************************)
C14_PercentageRange ==
    (Invoked("RestoreSpec") /\ ListFilesReturned)
    => /\ progress.percentage >= 0
       /\ progress.percentage < 100
       /\ pc = "done" => ret.progress.percentage = 100

C14_Witness ==
    /\ RestoreDone
    /\ progress.collections_completed = 1
    /\ progress.percentage = 50
    /\ ret.progress.percentage = 100

(***************************************************************************)
(* C15: the running restore progress computed before the collection at     *)
(* index i (0-based) of n collections has total = n, completed = i, the    *)
(* current collection set to the effective target name, and percentage     *)
(* exactly floor(i * 100 / n), for every 0 <= i < n.                       *)
(***************************************************************************)
\* the 0-based index of the collection the last running progress was
\* computed for: the one in hand inside an iteration, the one just left
\* between iterations
ProgressIndex ==
    IF pc \in {"r_download_file", "r_recover_from_snapshot", "r_get_collection_info"}
    THEN idx - 1
    ELSE idx - 2

C15_RunningProgress ==
    (/\ Invoked("RestoreSpec")
     /\ ListFilesReturned
     /\ ProgressIndex >= 0)
    => /\ progress.collections_total = Len(collections)
       /\ progress.collections_completed = ProgressIndex
       /\ progress.current_collection
              = TargetName(spec, collections[ProgressIndex + 1])
       /\ progress.percentage = (ProgressIndex * 100) \div Len(collections)

(***************************************************************************)
(* C16: ProcessSchedule.execute with a suspended spec never submits a      *)
(* backup request, whatever the prior status and however much time has     *)
(* elapsed, and returns phase Suspended with next-backup time absent and   *)
(* the prior last-backup fields (time, name, outcome) preserved.           *)
(***************************************************************************)
C16_SuspendedPreserves ==
    (Invoked("BackupScheduleSpec") /\ spec.suspend)
    => /\ pc = "done"
       /\ calls = <<>>
       /\ fired = <<>>
       /\ ret.phase = "Suspended"
       /\ ret.next_backup_time = NoValue
       /\ ret.last_backup_time = schedule_status.last_backup_time
       /\ ret.last_backup_name = schedule_status.last_backup_name
       /\ ret.last_backup_status = schedule_status.last_backup_status

(***************************************************************************)
(* C17: for a non-suspended schedule with a prior last-backup time,        *)
(* ProcessSchedule.execute computes a next-run strictly after that time    *)
(* (the first cron occurrence after it); if now >= next-run it submits     *)
(* exactly one backup request and the returned last-backup name differs    *)
(* from the prior one; otherwise it submits none and the returned          *)
(* last-backup time and name equal the prior ones.                         *)
(***************************************************************************)
IsOccurrence(schedule, t) == t % CronPeriod(schedule) = 0

\* the create_resource calls of the invocation in hand
Submissions == SelectSeq(calls, LAMBDA c : c.op = "create_resource")

C17_AnchoredAtLastBackup ==
    (/\ Invoked("BackupScheduleSpec")
     /\ ~ spec.suspend
     /\ schedule_status.last_backup_time # NoValue)
    => LET last == schedule_status.last_backup_time[1]
       IN  /\ next_run # NoValue
           /\ next_run[1] > last
           /\ IsOccurrence(spec.schedule, next_run[1])
           /\ \A t \in (last + 1)..(next_run[1] - 1) : ~ IsOccurrence(spec.schedule, t)
           /\ IF now >= next_run[1]
              THEN /\ pc \in {"s_create_resource", "done", "raised"}
                   /\ pc = "s_create_resource" => calls = <<>>
                   /\ pc \in {"done", "raised"} => Len(Submissions) = 1
                   /\ pc = "done" =>
                          /\ ret.last_backup_name # schedule_status.last_backup_name
                          /\ ret.last_backup_time = Some(now)
              ELSE /\ pc = "done"
                   /\ calls = <<>>
                   /\ ret.last_backup_time = schedule_status.last_backup_time
                   /\ ret.last_backup_name = schedule_status.last_backup_name

C17_Witness ==
    /\ Invoked("BackupScheduleSpec")
    /\ ~ spec.suspend
    /\ schedule_status.last_backup_time = Some(1)
    /\ next_run = Some(2)
    /\ now = 3
    /\ pc = "done"
    /\ Len(Submissions) = 1
    /\ ret.last_backup_name = "nightly-20260101-000003"
    /\ schedule_status.last_backup_name = "nightly-20260101-000001"

(***************************************************************************)
(* C18: for any sequence of non-suspended ProcessSchedule invocations at   *)
(* non-decreasing times in which each returned status is fed back as the   *)
(* next prior status, no extra backups fire: any two successive            *)
(* submissions at times t1 < t2 are separated by at least one cron         *)
(* occurrence in (t1, t2], and every invocation made before the first      *)
(* occurrence after the last submission submits nothing.                   *)
(***************************************************************************)
OccurrenceBetween(t1, t2) == \E o \in (t1 + 1)..t2 : IsOccurrence(spec.schedule, o)

C18_NoExtraBackups ==
    (spec.kind = "BackupScheduleSpec" /\ ~ spec.suspend /\ lost = 0)
    => /\ \A k \in 2..Len(fired) : OccurrenceBetween(fired[k - 1].time, fired[k].time)
       /\ (fired # <<>> /\ pc = "idle") =>
              schedule_status.last_backup_time = Some(fired[Len(fired)].time)
       /\ (/\ pc \in {"s_create_resource", "raised"}
           /\ schedule_status.last_backup_time # NoValue) =>
              OccurrenceBetween(schedule_status.last_backup_time[1], now)

C18_Witness ==
    /\ spec.kind = "BackupScheduleSpec"
    /\ ~ spec.suspend
    /\ lost = 0
    /\ Len(fired) = 2
    /\ fired[1].time = 3
    /\ fired[2].time = 4

(***************************************************************************)
(* C19: a non-suspended schedule whose status has no last-backup time yet, *)
(* processed repeatedly as time advances past cron occurrences (each       *)
(* returned status fed back as the next prior status), becomes due and     *)
(* submits a backup request: an invocation that runs at or after the       *)
(* next-backup time its prior status announces submits.                    *)
(***************************************************************************)
C19_FreshScheduleFires ==
    (/\ Invoked("BackupScheduleSpec")
     /\ ~ spec.suspend
     /\ lost = 0
     /\ pc = "done"
     /\ schedule_status.last_backup_time = NoValue
     /\ schedule_status.next_backup_time # NoValue
     /\ now >= schedule_status.next_backup_time[1])
    => /\ Len(Submissions) = 1
       /\ ret.last_backup_time = Some(now)

(***************************************************************************)
(* C20: ProcessSchedule is idempotent under re-invocation after a crash or *)
(* requeue: when the status returned by a submitting invocation was never  *)
(* persisted and execute is invoked again with the same spec and the same  *)
(* prior status, at most one backup request is submitted for the same due  *)
(* cron occurrence.                                                        *)
(***************************************************************************)
C20_OneRequestPerOccurrence ==
    spec.kind = "BackupScheduleSpec"
    => \A i, j \in DOMAIN fired : i < j => fired[i].next_run # fired[j].next_run

(***************************************************************************)
(* C21: schedule timing survives an operator restart: when the schedule    *)
(* handler runs on a resume event for a schedule whose persisted status    *)
(* records a last-backup time and name, the processor is anchored at that  *)
(* recorded time and the status it yields retains the recorded last-backup *)
(* time and name.                                                          *)
(***************************************************************************)
C21_ResumeKeepsAnchor ==
    (/\ Invoked("BackupScheduleSpec")
     /\ ~ spec.suspend
     /\ pc = "done"
     /\ schedule_status.last_backup_time # NoValue)
    => LET last == schedule_status.last_backup_time[1]
       IN  /\ next_run # NoValue
           /\ next_run[1] > last
           /\ IsOccurrence(spec.schedule, next_run[1])
           /\ \A t \in (last + 1)..(next_run[1] - 1) : ~ IsOccurrence(spec.schedule, t)
           /\ now < next_run[1] =>
                  /\ ret.last_backup_time = schedule_status.last_backup_time
                  /\ ret.last_backup_name = schedule_status.last_backup_name

(***************************************************************************)
(* C22: when a schedule is due, the status returned by                     *)
(* ProcessSchedule.execute has phase Active, last-backup time = now,       *)
(* last-backup name = "<schedule name>-<now as YYYYMMDD-HHMMSS>", active   *)
(* backup = that same name, and a next-backup time computed from now (the  *)
(* first cron occurrence after now) and therefore strictly after the       *)
(* returned last-backup time.                                              *)
(***************************************************************************)
\* execute found the schedule due, submitted and returned
DueReturned ==
    /\ Invoked("BackupScheduleSpec")
    /\ pc = "done"
    /\ Len(Submissions) = 1

C22_DueStatus ==
    DueReturned
    => /\ ret.phase = "Active"
       /\ ret.last_backup_time = Some(now)
       /\ ret.last_backup_name = spec.name \o "-" \o Timestamp(now)
       /\ ret.active_backup = ret.last_backup_name
       /\ ret.next_backup_time # NoValue
       /\ ret.next_backup_time[1] > ret.last_backup_time[1]
       /\ IsOccurrence(spec.schedule, ret.next_backup_time[1])
       /\ \A t \in (now + 1)..(ret.next_backup_time[1] - 1) :
              ~ IsOccurrence(spec.schedule, t)

C22_Witness ==
    /\ DueReturned
    /\ now = 4
    /\ next_run = Some(2)
    /\ ret.last_backup_name = "nightly-20260101-000004"
    /\ ret.active_backup = "nightly-20260101-000004"
    /\ ret.next_backup_time = Some(6)

(***************************************************************************)
(* C23: when a non-suspended schedule is not due, ProcessSchedule.execute  *)
(* returns phase Active with the prior status unchanged except for the     *)
(* freshly computed next-backup time: the last-backup time, name and       *)
(* outcome and the active backup name of the prior status are all carried  *)
(* over.                                                                   *)
(***************************************************************************)
\* execute found the schedule not due and returned
NotDueReturned ==
    /\ Invoked("BackupScheduleSpec")
    /\ ~ spec.suspend
    /\ pc = "done"
    /\ Submissions = <<>>

C23_NotDueCarriesOver ==
    NotDueReturned
    => /\ ret.phase = "Active"
       /\ ret.next_backup_time = next_run
       /\ ret.last_backup_time = schedule_status.last_backup_time
       /\ ret.last_backup_name = schedule_status.last_backup_name
       /\ ret.last_backup_status = schedule_status.last_backup_status
       /\ ret.active_backup = schedule_status.active_backup

(***************************************************************************)
(* C24: ReconcileCluster.execute queries the release status first and      *)
(* then invokes exactly one of install or upgrade, never both: install,    *)
(* with returned phase Pending, when the query finds no release under      *)
(* "qdrant-<spec.name>"; upgrade, with returned phase Upgrading, when it   *)
(* finds one.                                                              *)
(***************************************************************************)
\* the calls of the running ReconcileCluster.execute to the deploy ports
DeployCalls == SelectSeq(calls, LAMBDA c : c.op \in {"install", "upgrade"})

\* ReconcileCluster.execute is past its deploy call
Deployed ==
    /\ Invoked("ClusterSpec")
    /\ Len(calls) >= 1
    /\ calls[1].op = "get_release_status"
    /\ pc \in {"c_get_service_endpoint", "done", "raised"}

\* ReconcileCluster.execute returned
Reconciled == Deployed /\ pc = "done"

C25_InstallOnlyWhenAbsent == pc = "c_install" => release = "absent"

(***************************************************************************)
(* C26: after a successful ReconcileCluster.execute a release named        *)
(* "qdrant-<spec.name>" exists in the spec's namespace; a successful       *)
(* DeleteCluster.execute has issued exactly one uninstall for that name    *)
(* and namespace and nothing else, and the release is absent after it.     *)
(***************************************************************************)
\* DeleteCluster.execute returned
Deleted ==
    /\ Invoked("ClusterSpec")
    /\ pc = "done"
    /\ Len(calls) >= 1
    /\ calls[1].op = "uninstall"

C26_ReleaseLifecycle ==
    /\ Reconciled
       => /\ release = "deployed"
          /\ calls[2].err = None
          /\ calls[2].args[1] = "qdrant-" \o spec.name
          /\ calls[2].args[2] = spec.namespace
    /\ (Invoked("ClusterSpec") /\ pc = "done" /\ ~ Reconciled)
       => /\ Len(calls) = 1
          /\ calls[1].op = "uninstall"
          /\ calls[1].args = <<"qdrant-" \o spec.name, spec.namespace>>
          /\ calls[1].err = None
          /\ release = "absent"
          /\ ret = NoValue

\* a delete that removed the release an earlier reconcile had deployed
C26_Witness == Deleted /\ release = "absent" /\ calls[1].err = None

(***************************************************************************)
(* C27: every ClusterStatus returned by ReconcileCluster.execute carries   *)
(* release name "qdrant-<spec.name>", replicas equal to the requested      *)
(* replica count, zero ready replicas, the endpoint resolved for the       *)
(* release name, the spec's version, and exactly one condition.            *)
(***************************************************************************)
C27_ReturnedStatus ==
    Reconciled
    => /\ ret.helm_release = "qdrant-" \o spec.name
       /\ ret.replicas = spec.replicas
       /\ ret.ready_replicas = 0
       /\ calls[Len(calls)].op = "get_service_endpoint"
       /\ calls[Len(calls)].args[1] = ret.helm_release
       /\ ret.endpoint = calls[Len(calls)].result[1]
       /\ ret.version = spec.version
       /\ Len(ret.conditions) = 1

\* a status returned for three requested replicas
C27_Witness ==
    /\ Reconciled
    /\ spec.replicas = 3
    /\ ret.replicas = 3
    /\ ret.ready_replicas = 0
    /\ ret.endpoint = "http://qdrant-main.default.svc.cluster.local:6333"

(***************************************************************************)
(* C28: if the install or upgrade call fails, ReconcileCluster.execute     *)
(* propagates that failure to the caller: it returns no ClusterStatus and  *)
(* does not go on to resolve the service endpoint.                         *)
(***************************************************************************)
\* the deploy call of the running ReconcileCluster.execute raised
DeployFailed ==
    /\ Invoked("ClusterSpec")
    /\ DeployCalls # <<>>
    /\ DeployCalls[Len(DeployCalls)].err # None

C28_DeployFailurePropagates ==
    DeployFailed
    => /\ pc = "raised"
       /\ raised = DeployCalls[Len(DeployCalls)].err
       /\ ret = NoValue
       /\ \A k \in DOMAIN calls : calls[k].op # "get_service_endpoint"

\* an upgrade that failed
C28_Witness ==
    /\ DeployFailed
    /\ DeployCalls[1].op = "upgrade"
    /\ pc = "raised"

(***************************************************************************)
(* C29: two ExecuteRestore invocations for different restore resources     *)
(* running in parallel are independent even when both restore a source     *)
(* collection of the same name: the snapshot file each invocation passes   *)
(* to recover_from_snapshot holds the content that this same invocation    *)
(* downloaded, never content written by the other invocation.              *)
(***************************************************************************)
C29_ParallelRestoresIndependent ==
    \A k \in DOMAIN uploaded : uploaded[k].content.by = uploaded[k].by

(***************************************************************************)
(* C30: once past configuration and credential resolution,                 *)
(* ExecuteBackup.execute and ExecuteRestore.execute terminate for every    *)
(* collection set and every pattern of per-step failures, having processed *)
(* each collection exactly once, and the returned status carries a         *)
(* terminal phase, Completed or Failed.                                    *)
(***************************************************************************)
\* execute holds the credentials and has not been left
PastCredentials ==
    pc \in {"b_list_collections", "b_create_snapshot", "b_download_snapshot",
            "b_upload_file", "b_delete_snapshot",
            "r_list_files", "r_for", "r_download_file", "r_recover_from_snapshot",
            "r_get_collection_info"}

\* execute returned or raised
Terminated == pc \in {"done", "raised"}

\* the calls of op made in loop iteration i
CallsIn(op, i) == {k \in DOMAIN calls : calls[k].op = op /\ calls[k].iter = i}

\* no collection is taken up twice, and a returned status comes after every
\* collection was taken up once and has a terminal phase
ProcessedOnce ==
    /\ Invoked("BackupSpec")
       => \A i \in 1..Len(collections) : Cardinality(CallsIn("create_snapshot", i)) <= 1
    /\ BackupDone
       => /\ idx = Len(collections) + 1
          /\ \A i \in 1..Len(collections) : Cardinality(CallsIn("create_snapshot", i)) = 1
          /\ ret.phase \in {"Completed", "Failed"}
    /\ Invoked("RestoreSpec")
       => /\ \A i \in 1..Len(collections) : Cardinality(CallsIn("download_file", i)) <= 1
          /\ Len(restored) <= Len(collections)
    /\ RestoreDone
       => /\ idx = Len(collections) + 1
          /\ Len(restored) = Len(collections)
          /\ \A i \in 1..Len(collections) :
                 restored[i].name = TargetName(spec, collections[i])
          /\ ret.phase \in {"Completed", "Failed"}

C30_RunsToTerminalPhase ==
    /\ [] ProcessedOnce
    /\ PastCredentials ~> Terminated

\* a backup of two collections returned after every step of the first one
\* and the upload of the second one had been tried
C30_Witness ==
    /\ BackupDone
    /\ Len(collections) = 2
    /\ CallsIn("delete_snapshot", 1) # {}
    /\ CallsIn("upload_file", 2) # {}
    /\ ret.phase = "Failed"

\* 1024^k
RECURSIVE Pow1024(_)
Pow1024(k) == IF k = 0 THEN 1 ELSE 1024 * Pow1024(k - 1)

\* the smallest k, at most 5, with n / 1024^k below 1024; q is n \div 1024^k
RECURSIVE UnitExponent(_, _)
UnitExponent(q, k) ==
    IF k = 5 \/ q < 1024 THEN k ELSE UnitExponent(q \div 1024, k + 1)

UnitNames == <<"B", "KB", "MB", "GB", "TB", "PB">>

\* n / 1024^k to one decimal place (ties to the even digit) with its unit
OneDecimalSize(n) ==
    LET k      == UnitExponent(n, 0)
        d      == Pow1024(k)
        q      == (10 * n) \div d
        r      == (10 * n) % d
        tenths == IF 2 * r > d \/ (2 * r = d /\ q % 2 = 1) THEN q + 1 ELSE q
    IN  ToString(tenths \div 10) \o "." \o ToString(tenths % 10) \o UnitNames[k + 1]

(***************************************************************************)
(* C32: format_size(n) renders n / 1024^k to one decimal place in the      *)
(* smallest binary unit in which the value is below 1024 (0 is "0.0B",     *)
(* 1536 is "1.5KB"); stated for the total size of a returned BackupStatus. *)
(***************************************************************************)
C32_FormatSizeOneDecimal ==
    BackupDone => ret.total_size = OneDecimalSize(total_size)

\* the get_secret_value calls made so far, in order
SecretCalls == SelectSeq(calls, LAMBDA c : c.op = "get_secret_value")

\* the storage spec whose credentials execute resolves
StorageOf(sp) == IF sp.kind = "BackupSpec" THEN sp.storage ELSE sp.source_s3[1]

(***************************************************************************)
(* C33: credential resolution fetches the access key through the storage   *)
(* spec's secret reference first, then the secret key through a reference  *)
(* with the same name and namespace and the key AWS_SECRET_ACCESS_KEY; the *)
(* resolved pair is (access key, secret key), in that order.               *)
(***************************************************************************)
C33_CredentialOrder ==
    (Invoked("BackupSpec") \/ Invoked("RestoreSpec")) =>
        LET sc == SecretCalls
        IN  /\ Len(sc) <= 2
            /\ credentials # <<>> => Len(sc) >= 1
            /\ Len(credentials) = 2 => Len(sc) = 2
            /\ Len(sc) >= 1 =>
                  LET ref == StorageOf(spec).credentials_secret_ref
                  IN  /\ sc[1].args = <<ref.name, ref.key, ref.namespace>>
                      /\ credentials # <<>> =>
                            /\ sc[1].err = None
                            /\ credentials[1] = sc[1].result[1]
                      /\ Len(sc) = 2 =>
                            /\ sc[1].err = None
                            /\ sc[2].args = <<ref.name, "AWS_SECRET_ACCESS_KEY", ref.namespace>>
                            /\ sc[2].args # sc[1].args
                      /\ Len(credentials) = 2 =>
                            /\ sc[2].err = None
                            /\ credentials = <<sc[1].result[1], sc[2].result[1]>>

C33_Witness ==
    /\ Invoked("RestoreSpec")
    /\ Len(credentials) = 2
    /\ Len(SecretCalls) = 2
    /\ credentials[1] # credentials[2]

\* the name collection c is restored under, by the rename table of sp
RenamedTo(sp, c) ==
    IF c \in DOMAIN sp.collection_mapping THEN sp.collection_mapping[c] ELSE c

(***************************************************************************)
(* C34: for each collection ExecuteRestore takes the target name from the  *)
(* rename table (the source name when it has no entry), locates and        *)
(* downloads the snapshot by the source name, calls recovery and           *)
(* collection info against the target name, and records the original name  *)
(* exactly when the target name differs from the source name.              *)
(***************************************************************************)
C34_RenameOnRestore ==
    Invoked("RestoreSpec") =>
        /\ \A k \in DOMAIN calls :
              calls[k].iter >= 1 =>
                 LET c == collections[calls[k].iter]
                     t == RenamedTo(spec, c)
                     a == calls[k].args
                 IN  /\ calls[k].op = "download_file" =>
                            /\ \E f \in DOMAIN files : files[f] = a[1]
                            /\ \E n \in 2..(Len(a[1]) - 1) : a[1][n] = c
                            /\ a[2] = "/tmp/" \o c \o "_restore.snapshot"
                     /\ calls[k].op = "recover_from_snapshot" =>
                            a = <<t, "/tmp/" \o c \o "_restore.snapshot">>
                     /\ calls[k].op = "get_collection_info" => a = <<t>>
        /\ \A j \in DOMAIN restored :
              LET c == collections[j]
                  t == RenamedTo(spec, c)
              IN  /\ restored[j].name = t
                  /\ restored[j].original_name = (IF t # c THEN c ELSE None)

C34_Witness ==
    /\ RestoreDone
    /\ \E i, j \in DOMAIN restored :
          /\ restored[i].status = "Completed"
          /\ restored[i].name = "colC"
          /\ restored[i].original_name = "colA"
          /\ restored[j].status = "Completed"
          /\ restored[j].name = "colB"
          /\ restored[j].original_name = None
          /\ "colB" \in DOMAIN spec.collection_mapping
    /\ \E k \in DOMAIN calls :
          calls[k].op = "recover_from_snapshot" /\ calls[k].args[1] = "colC"

\* the port calls of loop iteration i, in the order they were made
IterCalls(i) == SelectSeq(calls, LAMBDA c : c.iter = i)

BackupSteps == <<"create_snapshot", "download_snapshot", "upload_file", "delete_snapshot">>

(***************************************************************************)
(* C35: for each collection ExecuteBackup calls create snapshot, download, *)
(* upload to "<storage.prefix>/<backup.name>/<collection>/<snapshot-name>" *)
(* and delete remote snapshot in this order, a step only after every       *)
(* earlier step of the collection succeeded; so, once the collection has   *)
(* been processed, the deletion was requested if and only if the upload    *)
(* succeeded, and it was not requested when download or upload failed.     *)
(***************************************************************************)
C35_BackupStepOrder ==
    Invoked("BackupSpec") =>
        \A i \in 1..Len(collections) :
            LET cs == IterCalls(i)
                c  == collections[i]
            IN  /\ Len(cs) <= 4
                /\ \A k \in DOMAIN cs :
                      /\ cs[k].op = BackupSteps[k]
                      /\ k < Len(cs) => cs[k].err = None
                /\ Len(cs) >= 1 => cs[1].args = <<c>>
                /\ Len(cs) >= 2 => cs[2].args[1] = c
                /\ Len(cs) >= 3 =>
                      cs[3].args = <<cs[2].args[3],
                                     spec.storage.prefix \o "/" \o spec.name \o "/"
                                         \o c \o "/" \o cs[2].args[2]>>
                /\ Len(cs) = 4 => cs[4].args = <<c, cs[2].args[2]>>
                /\ i < idx =>
                      /\ Len(cs) >= 1
                      /\ Len(cs) = 4 <=> (Len(cs) >= 3 /\ cs[3].err = None)

C35_Witness ==
    /\ BackupDone
    /\ \E i, j \in 1..Len(collections) :
          /\ Len(IterCalls(i)) = 4
          /\ IterCalls(i)[4].err = None
          /\ Len(IterCalls(j)) = 3
          /\ IterCalls(j)[3].err # None

RestoreSteps == <<"download_file", "recover_from_snapshot", "get_collection_info">>

\* the listing holds a snapshot key with collection c as a middle segment
KeyListed(c) ==
    \E f \in DOMAIN files :
        /\ \E n \in 2..(Len(files[f]) - 1) : files[f][n] = c
        /\ files[f][Len(files[f])] = "x.snapshot"

(***************************************************************************)
(* C36: for each collection ExecuteRestore calls download, recovery and    *)
(* collection info in this order, a step only after the earlier ones       *)
(* succeeded: nothing is called for a collection whose snapshot key is     *)
(* missing, recovery is not called after a failed download, and the        *)
(* collection is recorded Completed exactly when all three calls           *)
(* succeeded (Failed when collection info fails after a successful         *)
(* recovery).                                                              *)
(***************************************************************************)
C36_RestoreStepOrder ==
    Invoked("RestoreSpec") =>
        \A i \in 1..Len(collections) :
            LET cs == IterCalls(i)
            IN  /\ Len(cs) <= 3
                /\ \A k \in DOMAIN cs :
                      /\ cs[k].op = RestoreSteps[k]
                      /\ k < Len(cs) => cs[k].err = None
                /\ ~ KeyListed(collections[i]) => cs = <<>>
                /\ i <= Len(restored) =>
                      /\ restored[i].status \in {"Completed", "Failed"}
                      /\ restored[i].status = "Completed"
                            <=> (Len(cs) = 3 /\ cs[3].err = None)

C36_Witness ==
    /\ RestoreDone
    /\ \E i, j \in 1..Len(collections) :
          /\ restored[i].status = "Completed"
          /\ Len(IterCalls(i)) = 3
          /\ Len(IterCalls(j)) = 3
          /\ IterCalls(j)[2].err = None
          /\ IterCalls(j)[3].err # None
          /\ restored[j].status = "Failed"

(***************************************************************************)
(* C37: when the collection list is derived from a listing in which every  *)
(* key ends in the snapshot suffix, every derived collection has a         *)
(* locatable snapshot key, and none is failed with "No snapshot found".    *)
(***************************************************************************)
C37_DerivedCollectionsLocatable ==
    (/\ Invoked("RestoreSpec")
     /\ ListFilesReturned
     /\ spec.collections = <<>>
     /\ \A f \in DOMAIN Listed : Listed[f][Len(Listed[f])] = "x.snapshot")
    => /\ \A i \in DOMAIN collections : KeyListed(collections[i])
       /\ \A j \in DOMAIN restored :
             restored[j].error # "No snapshot found for collection " \o collections[j]

\* the timer's handler has returned
TimerReturned == pc = "returned" /\ spec.kind = "BackupScheduleSpec"

\* execute submitted a backup request in this run of the timer
Submitted == \E k \in DOMAIN calls : calls[k].op = "create_resource" /\ calls[k].err = None

(***************************************************************************)
(* C38: check_schedule returns a status to persist if and only if the      *)
(* processor submitted a new backup in this run; for a suspended spec the  *)
(* processor is not invoked; and when nothing is returned (not due, or     *)
(* suspended) the persisted status stays as it was.                        *)
(***************************************************************************)
C38_TimerYieldsOnlyNewBackup ==
    /\ [](TimerReturned =>
             /\ yielded # NoValue <=> Submitted
             /\ yielded # NoValue =>
                   /\ ret.last_backup_name # BackupScheduleStatus_from_dict(stored_status).last_backup_name
                   /\ yielded[1]["lastBackupName"] = ret.last_backup_name
             /\ spec.suspend => calls = <<>> /\ ret = NoValue)
    /\ [][stored_status' # stored_status => (TimerReturned /\ yielded # NoValue)]_vars
    /\ [][(TimerReturned /\ yielded = NoValue) => stored_status' = stored_status]_vars

C38_Witness ==
    /\ TimerReturned
    /\ yielded # NoValue
    /\ Submitted
    /\ stored_status # yielded[1]

\* the six attributes of a schedule status
SameScheduleStatus(a, b) ==
    /\ a.phase = b.phase
    /\ a.last_backup_time = b.last_backup_time
    /\ a.last_backup_name = b.last_backup_name
    /\ a.last_backup_status = b.last_backup_status
    /\ a.next_backup_time = b.next_backup_time
    /\ a.active_backup = b.active_backup

OptionalTextKeys == {"helmRelease", "endpoint", "version"}

(***************************************************************************)
(* C31: the map a status object's to_dict returns always holds phase and   *)
(* holds no key whose value is null: an unset optional attribute has no    *)
(* key.  Stated for the map reconcile_cluster returns.                     *)
(***************************************************************************)
C31_NoNullInSerializedStatus ==
    (yielded # NoValue /\ spec.kind = "ClusterSpec") =>
        LET d == yielded[1]
        IN  /\ "phase" \in DOMAIN d
            /\ \A k \in OptionalTextKeys \cap DOMAIN d : d[k] # None
            /\ "observedGeneration" \in DOMAIN d => d["observedGeneration"] # NoValue

(***************************************************************************)
(* C40: the request body the Schedule Processor builds is accepted by      *)
(* BackupSpec.from_dict, for a schedule with or without collections: the   *)
(* BackupSpec has the generated backup name, the schedule's cluster        *)
(* reference and bucket, the prefix "<schedule prefix>/<backup name>" and  *)
(* the schedule's collections.                                             *)
(***************************************************************************)
C40_RequestBodyParses ==
    [][(pc = "done" /\ pc' \in {"b_access_key", "raised"}) =>
          /\ pc' = "b_access_key"
          /\ spec'.kind = "BackupSpec"
          /\ spec'.name = BackupName(spec, now)
          /\ spec'.cluster_ref = spec.cluster_ref
          /\ spec'.storage.bucket = spec.storage.bucket
          /\ spec'.storage.prefix = spec.storage.prefix \o "/" \o BackupName(spec, now)
          /\ spec'.collections = spec.collections]_vars

====
